---- MODULE Spec2Model ----
(***************************************************************************)
(* A model of the wallet monitor (services/wallet/monitor-new.ts), its     *)
(* daily PnL bookkeeping, and the WebSocket hub (services/websocket/       *)
(* server.ts).                                                             *)
(*                                                                         *)
(* Units.  SOL amounts are integers in units of 10^-7 SOL (100 lamports,   *)
(* so that sums stay within TLC's integers); the code's 0.000001 SOL       *)
(* threshold is SolEps = 10.  Token amounts are integers in units of 10^-6 *)
(* token; the code's 0.000001 threshold is TokenEps = 1.  Floating point   *)
(* rounding is not modelled.                                               *)
(*                                                                         *)
(* Scheduling.  The node event loop runs the code between two awaits       *)
(* atomically; every action below is one such block.  A Store or RPC call  *)
(* takes effect in the block that resumes after it.                        *)
(***************************************************************************)
EXTENDS Integers, Sequences, FiniteSets, TLC

\* ---------------------------------------------------------------- bounds
NumSigs == 2          \* signatures on the chain
MaxDay == 2           \* the clock runs over days 1..MaxDay
MaxPolls == 2         \* polling callbacks fired per process run
MaxInFlight == 2      \* polling callbacks in flight at once
MaxRestarts == 1      \* process restarts
MaxToggles == 1       \* out-of-band changes of users.is_live
MaxConns == 2         \* connections accepted by the hub
MaxEvents == 2        \* monitor events handed to the hub
MaxMsgs == 2          \* client frames handled by the hub
MaxSnapshots == 2     \* snapshots the hub assembles
MaxTokenCalls == 2    \* calls of the token metadata service in flight
MaxTokenOps == 3      \* calls of the token metadata service in all
MaxPrice == 2         \* prices: 1 .. MaxPrice
MaxFailures == 1      \* RPC or Store calls of the monitor that fail

\* ------------------------------------------------------ program constants
SolEps == 10          \* 0.000001 SOL in units of 10^-7 SOL
TokenEps == 1         \* 0.000001 token in units of 10^-6
SigLimit == 15        \* getSignaturesForAddress limit
RecentLimit == 20     \* persisted signatures preloaded for a new wallet
DayTicks == 10        \* clock ticks per day (block times are in ticks)

WSOL == "So11111111111111111111111111111111111111112"
Wallets == {"W1", "W2"}
WalletOrder == <<"W1", "W2">>
Sigs == 1..NumSigs
NoSig == 0
Days == 1..MaxDay
Slots == 1..MaxInFlight
Conns == 1..MaxConns
Mints == {"M1", "M2"}
TokenSlots == 1..MaxTokenCalls

UserId(w) == IF w = "W1" THEN 1 ELSE 2

Abs(x) == IF x < 0 THEN -x ELSE x

\* ------------------------------------------------------------- the chain
\* A token balance entry of a parsed transaction.
Tok(ix, m, o, a) == [accountIndex |-> ix, mint |-> m, owner |-> o, amount |-> a]

\* A parsed transaction as the RPC node returns it for wallet w.  blockTime 0
\* is "no block time"; inKeys says whether w is listed in accountKeys.
Tx(w, t, e, k, pre, post, preTok, postTok) ==
  [wallet |-> w, blockTime |-> t, meta |-> TRUE, err |-> e, inKeys |-> k,
   preBalance |-> pre, postBalance |-> post,
   preTokenBalances |-> preTok, postTokenBalances |-> postTok]

\* Block times of day d lie in DayStart(d) .. DayEnd(d).
DayStart(d) == d * DayTicks
DayEnd(d) == d * DayTicks + (DayTicks - 1)

TxShapes(w) ==
  { \* buy: -0.1 SOL, token M1 0 -> 500
    Tx(w, DayStart(1) + 1, FALSE, TRUE, 10000000, 9000000,
       <<>>, <<Tok(3, "M1", w, 500000000)>>),
    \* sell: +0.2 SOL, token M1 500 -> 0 (account closed: no post entry)
    Tx(w, DayStart(1) + 2, FALSE, TRUE, 9000000, 11000000,
       <<Tok(3, "M1", w, 500000000)>>, <<>>),
    \* one transaction, two token deltas: M1 and M2 both bought
    Tx(w, DayStart(1) + 3, FALSE, TRUE, 11000000, 8000000,
       <<>>, <<Tok(3, "M1", w, 100000000), Tok(4, "M2", w, 200000000)>>),
    \* token sent away, SOL pays the fee only: a withdrawal
    Tx(w, DayStart(1) + 4, FALSE, TRUE, 8000000, 7999950,
       <<Tok(3, "M1", w, 100000000)>>, <<Tok(3, "M1", w, 40000000)>>),
    \* failed transaction
    Tx(w, DayStart(1) + 5, TRUE, TRUE, 8000000, 7999950,
       <<>>, <<Tok(3, "M1", w, 500000000)>>),
    \* plain SOL transfer, no token balance touched
    Tx(w, DayStart(1) + 6, FALSE, TRUE, 8000000, 7000000, <<>>, <<>>) }

\* Further transactions of day 1 and around it: transfers in, wrapped SOL
\* deltas, and buys at the edges of the day and without a block time.
BuyAt(w, t) ==
  Tx(w, t, FALSE, TRUE, 10000000, 9000000, <<>>, <<Tok(3, "M1", w, 500000000)>>)

TxCases(w) ==
  TxShapes(w) \cup
  { \* token M1 0 -> 100 received together with 0.05 SOL
    Tx(w, DayStart(1) + 7, FALSE, TRUE, 8000000, 8500000,
       <<>>, <<Tok(3, "M1", w, 100000000)>>),
    \* transfer in: token M1 0 -> 100, SOL unchanged (the sender pays the fee)
    Tx(w, DayStart(1) + 8, FALSE, TRUE, 8000000, 8000000,
       <<>>, <<Tok(3, "M1", w, 100000000)>>),
    \* SOL wrapped: -0.1 SOL, wrapped SOL 0 -> 0.1
    Tx(w, DayStart(1) + 7, FALSE, TRUE, 8000000, 7000000,
       <<>>, <<Tok(3, WSOL, w, 100000)>>),
    \* a buy that also touches the wallet's wrapped SOL account
    Tx(w, DayStart(1) + 8, FALSE, TRUE, 8000000, 7000000,
       <<Tok(3, WSOL, w, 100000)>>,
       <<Tok(3, WSOL, w, 50000), Tok(4, "M1", w, 200000000)>>),
    \* the last tick of the day before, the first and last tick of day 1, the
    \* first tick of day 2, and a transaction without block time
    BuyAt(w, DayStart(1) - 1),
    BuyAt(w, DayStart(1)),
    BuyAt(w, DayEnd(1)),
    BuyAt(w, DayEnd(1) + 1),
    BuyAt(w, 0),
    \* a transaction that does not list the wallet in its account keys
    Tx(w, DayStart(1) + 9, FALSE, FALSE, 8000000, 7000000,
       <<>>, <<Tok(3, "M1", w, 500000000)>>),
    \* fee only: -0.0000005 SOL, no token balance touched
    Tx(w, DayStart(1) + 9, FALSE, TRUE, 8000000, 7999995, <<>>, <<>>),
    \* a buy of M2 while the wallet's M1 account keeps its balance
    Tx(w, DayStart(1) + 7, FALSE, TRUE, 8000000, 7000000,
       <<Tok(3, "M1", w, 100000000)>>,
       <<Tok(3, "M1", w, 100000000), Tok(4, "M2", w, 200000000)>>),
    \* token deltas at the threshold: M1 +0.000001 and M2 +0.000002
    Tx(w, DayStart(1) + 6, FALSE, TRUE, 8000000, 7000000,
       <<>>, <<Tok(3, "M1", w, 1), Tok(4, "M2", w, 2)>>) }

VARIABLES
  \* the world outside the process
  chain,          \* signature -> parsed transaction (fixed at Init)
  published,      \* signatures on the chain so far, oldest first
  today,          \* the current day
  isLive,         \* users.is_live per wallet
  \* the Store
  trades,         \* rows of the trades table, in insertion order
  pnlRecords,     \* rows of the pnl_records table, in insertion order
  \* the monitor process
  running,        \* initialize() has completed and polling is on
  activeWallets,  \* wallet -> [present, userId, lastSignature]
  dailyPnLCache,  \* wallet -> [present, date, startBalance, currentBalance, ...]
  processedTransactions,
  cyc,            \* slot -> the polling callback running in it
  emitted,        \* events emitted by the monitor, in order
  \* counters that bound the model, and history
  polls, restarts, toggles,
  returned,       \* signatures some processTransaction call has returned for
  failures,       \* RPC and Store calls that have failed so far
  failed,         \* history: signatures whose processTransaction call caught an
                  \* exception since the process started
  \* the hub
  clients,        \* connection -> [registered, walletAddresses, subscriptions]
  readyState,     \* connection -> "NONE", "OPEN", "CLOSING" or "CLOSED"
  out,            \* connection -> the frames the last hub step wrote to its socket
  firstFrame,     \* history: connection -> whether the first frame written to it
                  \* was the USERS_LIST ("NONE" while nothing was written)
  listFrames,     \* history: connection -> number of USERS_LIST frames written
  listTasks,      \* connections whose sendInitialUsersList is in flight
  evt,            \* events the hub was handed, each with its broadcastUserUpdate
  msgs,           \* client frames handled so far
  step,           \* history: what the last hub step was
  wants,          \* history: connection -> wallets asked for and not given up
  userData,       \* snapshots read from the Store and not yet sent
  delivered,      \* history: the snapshots sent, in the order of sending
  \* the token metadata service
  tokensTable,    \* mint -> the row of the tokens table: [present, lastPrice]
  tokenCache,     \* mint -> the entry of tokenCache: [present, lastPrice]
  tokenCalls,     \* slot -> the getTokenMetadata or updateTokenPrice call in it
  tokenOps        \* calls of the token metadata service started so far

monitorVars == <<chain, published, today, isLive, trades, pnlRecords, running,
                 activeWallets, dailyPnLCache, processedTransactions, cyc,
                 emitted, polls, restarts, toggles, returned, failures, failed>>

faultVars == <<failures, failed>>

snapshotVars == <<userData, delivered>>

tokenVars == <<tokensTable, tokenCache, tokenCalls, tokenOps>>

hubVars == <<clients, readyState, out, firstFrame, listFrames, listTasks, evt, msgs,
            step, wants, snapshotVars, tokenVars>>

vars == <<monitorVars, hubVars>>

\* ------------------------------------------------------- pure functions
\* processTransaction: the token changes of wallet w in transaction tx.
\* First pass over postTokenBalances from entry k on.
RECURSIVE PostChanges(_, _, _)
PostChanges(tx, w, k) ==
  IF k > Len(tx.postTokenBalances) THEN <<>>
  ELSE LET post == tx.postTokenBalances[k]
           pres == {j \in 1..Len(tx.preTokenBalances) :
                      tx.preTokenBalances[j].accountIndex = post.accountIndex}
           preAmount == IF pres = {} THEN 0
                        ELSE tx.preTokenBalances[CHOOSE j \in pres :
                                                   \A j2 \in pres : j <= j2].amount
           change == post.amount - preAmount
       IN (IF post.owner = w /\ Abs(change) > TokenEps
           THEN <<[mint |-> post.mint, preAmount |-> preAmount,
                   postAmount |-> post.amount, change |-> change]>>
           ELSE <<>>) \o PostChanges(tx, w, k + 1)

\* Second pass over preTokenBalances from entry k on; acc is tokenChanges so far.
RECURSIVE PreChanges(_, _, _, _)
PreChanges(tx, w, k, acc) ==
  IF k > Len(tx.preTokenBalances) THEN acc
  ELSE LET pre == tx.preTokenBalances[k]
           alreadyProcessed ==
             \E i \in 1..Len(acc) : \E j \in 1..Len(tx.postTokenBalances) :
               /\ tx.postTokenBalances[j].accountIndex = pre.accountIndex
               /\ tx.postTokenBalances[j].mint = acc[i].mint
       IN PreChanges(tx, w, k + 1,
            IF ~alreadyProcessed /\ pre.owner = w /\ pre.amount > 0
            THEN Append(acc, [mint |-> pre.mint, preAmount |-> pre.amount,
                              postAmount |-> 0, change |-> -pre.amount])
            ELSE acc)

TokenChanges(tx, w) == PreChanges(tx, w, 1, PostChanges(tx, w, 1))

SolChange(tx) == tx.postBalance - tx.preBalance

\* Every token inflow counts as a buy, whatever SOL did.
IsBuyAnyInflow(change, solChange) == change > 0

\* classifyAndSaveTransaction: the kind of one token change.
IsBuy(change, solChange) == change > 0 /\ solChange < 0
IsSell(change, solChange) == change < 0 /\ solChange > 0
IsTrade(change, solChange) == IsBuy(change, solChange) \/ IsSell(change, solChange)

TradePnl(change, solChange) ==
  IF IsBuy(change, solChange) THEN -Abs(solChange)
  ELSE IF IsSell(change, solChange) THEN Abs(solChange)
  ELSE 0

\* Transfers are stored like trades: against wrapped SOL, platform "unknown".
TradeDataAsSwap(sig, w, userId, tc, solChange, blockTime) ==
  [signature |-> sig, walletAddress |-> w, userId |-> userId,
   tokenA |-> tc.mint, tokenB |-> WSOL,
   type |-> IF IsBuy(tc.change, solChange) THEN "buy"
            ELSE IF IsSell(tc.change, solChange) THEN "sell"
            ELSE IF tc.change > 0 THEN "deposit" ELSE "withdrawal",
   amountA |-> Abs(tc.change), amountB |-> Abs(solChange),
   platform |-> "unknown", timestamp |-> blockTime,
   tradePnl |-> TradePnl(tc.change, solChange)]

\* classifyAndSaveTransaction: tradeData / transferData for one token change.
TradeData(sig, w, userId, tc, solChange, blockTime) ==
  IF IsTrade(tc.change, solChange)
  THEN [signature |-> sig, walletAddress |-> w, userId |-> userId,
        tokenA |-> tc.mint, tokenB |-> WSOL,
        type |-> IF IsBuy(tc.change, solChange) THEN "buy" ELSE "sell",
        amountA |-> Abs(tc.change), amountB |-> Abs(solChange),
        platform |-> "unknown", timestamp |-> blockTime,
        tradePnl |-> TradePnl(tc.change, solChange)]
  ELSE [signature |-> sig, walletAddress |-> w, userId |-> userId,
        tokenA |-> tc.mint, tokenB |-> tc.mint,
        type |-> IF tc.change > 0 THEN "deposit" ELSE "withdrawal",
        amountA |-> Abs(tc.change), amountB |-> Abs(tc.change),
        platform |-> "transfer", timestamp |-> blockTime,
        tradePnl |-> 0]

\* The first and the last instant of the day are left out.
IsTodayOpen(t, d) == ~(t <= DayStart(d) \/ t >= DayEnd(d))

\* getPSTDate / getPSTStartOfDay / getPSTEndOfDay: is block time t within day d.
IsToday(t, d) == ~(t < DayStart(d) \/ t > DayEnd(d))

\* ------------------------------------------------------------ the Store
\* select from trades where signature = sig
ExistingTrade(tr, sig) == {k \in 1..Len(tr) : tr[k].signature = sig}

\* The insert is lost: the row never reaches the table.
UpsertTradeLost(tr, row) == tr

\* insert into trades ... on conflict (signature) do update
UpsertTrade(tr, row) ==
  IF ExistingTrade(tr, row.signature) = {} THEN Append(tr, row)
  ELSE [k \in 1..Len(tr) |-> IF tr[k].signature = row.signature THEN row ELSE tr[k]]

\* The positions of s sorted by key descending (ties: earlier position first).
RECURSIVE OrderDesc(_, _)
OrderDesc(key, left) ==
  IF left = {} THEN <<>>
  ELSE LET k == CHOOSE k \in left :
                  \A j \in left : key[k] > key[j] \/ (key[k] = key[j] /\ k <= j)
       IN <<k>> \o OrderDesc(key, left \ {k})

Take(s, n) == IF Len(s) <= n THEN s ELSE SubSeq(s, 1, n)

\* loadRecentTransactionsForWallets: the newest RecentLimit signatures stored
\* for wallet w, newest first.
RecentSignatures(tr, w) ==
  LET mine == {k \in 1..Len(tr) : tr[k].walletAddress = w}
      ord == OrderDesc([k \in 1..Len(tr) |-> tr[k].timestamp], mine)
  IN Take([n \in 1..Len(ord) |-> tr[ord[n]].signature], RecentLimit)

\* select from pnl_records where wallet_address = w and date = d
PnlRowsFor(recs, w, d) ==
  {k \in 1..Len(recs) : recs[k].walletAddress = w /\ recs[k].date = d}

\* select from pnl_records where wallet_address = w order by date desc limit 1
LastPnlRow(recs, w) ==
  LET mine == {k \in 1..Len(recs) : recs[k].walletAddress = w}
  IN OrderDesc([k \in 1..Len(recs) |-> recs[k].date], mine)

\* update pnl_records set ... where wallet_address = w and date = d
UpdatePnlRows(recs, w, d, endBalance, realizedPnl, totalTrades) ==
  [k \in 1..Len(recs) |->
     IF recs[k].walletAddress = w /\ recs[k].date = d
     THEN [recs[k] EXCEPT !.endBalance = endBalance, !.realizedPnl = realizedPnl,
                          !.totalTrades = totalTrades]
     ELSE recs[k]]

\* ------------------------------------------------------------ the chain
\* getSignaturesForAddress(w, limit): newest first.
RECURSIVE Reverse(_)
Reverse(s) == IF s = <<>> THEN <<>> ELSE Append(Reverse(Tail(s)), Head(s))

ChainSignatures(w) ==
  Take(Reverse(SelectSeq(published, LAMBDA s : chain[s].wallet = w)), SigLimit)

\* getBalance(w): the balance the wallet's newest transaction left.
InitialBalance == 10000000
ChainBalance(w) ==
  LET mine == SelectSeq(published, LAMBDA s : chain[s].wallet = w /\ ~chain[s].err)
  IN IF mine = <<>> THEN InitialBalance ELSE chain[mine[Len(mine)]].postBalance

\* processTransactions: signatures in ascending block time (a stable sort).
RECURSIVE InsertByTime(_, _)
InsertByTime(sorted, s) ==
  IF sorted = <<>> THEN <<s>>
  ELSE IF chain[Head(sorted)].blockTime <= chain[s].blockTime
       THEN <<Head(sorted)>> \o InsertByTime(Tail(sorted), s)
       ELSE <<s>> \o sorted

\* The signatures are processed in the order the chain returned them.
KeepOrder(sigs) == sigs

RECURSIVE SortByBlockTime(_)
SortByBlockTime(sigs) ==
  IF sigs = <<>> THEN <<>>
  ELSE InsertByTime(SortByBlockTime(SubSeq(sigs, 1, Len(sigs) - 1)), sigs[Len(sigs)])

\* ---------------------------------------------------------- the monitor
NoLoc == [date |-> 0, bal |-> 0, start |-> 0, rp |-> 0, tt |-> 0]
Idle == [pc |-> "idle", visited |-> {}, w |-> "W1", sigs |-> <<>>, sig |-> NoSig,
         tcs |-> <<>>, loc |-> NoLoc, again |-> FALSE]
NoWallet == [present |-> FALSE, userId |-> 0, lastSignature |-> NoSig]
NoCache == [present |-> FALSE, date |-> 0, startBalance |-> 0, currentBalance |-> 0,
            realizedPnl |-> 0, totalTrades |-> 0]

TradeEvent(w, sig) == [kind |-> "trade", wallet |-> w, sig |-> sig]
PnlEvent(w, sig) == [kind |-> "pnl", wallet |-> w, sig |-> sig]
BalanceEvent(w) == [kind |-> "balance", wallet |-> w, sig |-> NoSig]

\* Wallets that are no longer live stay in the map.
ReloadedKeepAll(aw) ==
  [w \in Wallets |->
     IF isLive[w] \/ aw[w].present
     THEN [present |-> TRUE, userId |-> UserId(w), lastSignature |-> NoSig]
     ELSE NoWallet]

\* loadActiveWallets: the map rebuilt from the live users.
ReloadedWallets(aw) ==
  [w \in Wallets |->
     IF isLive[w] THEN [present |-> TRUE, userId |-> UserId(w), lastSignature |-> NoSig]
     ELSE NoWallet]

NewWallets(aw) == {w \in Wallets : isLive[w] /\ ~aw[w].present}

\* loadRecentTransactionsForWallets: lastSignature of the new wallets.
WithRecent(aw, new) ==
  [w \in Wallets |->
     IF w \in new /\ RecentSignatures(trades, w) # <<>>
     THEN [aw[w] EXCEPT !.lastSignature = RecentSignatures(trades, w)[1]]
     ELSE aw[w]]

RecentOf(new) ==
  UNION {{RecentSignatures(trades, w)[n] : n \in 1..Len(RecentSignatures(trades, w))}
           : w \in new}

\* initializeDailyPnL(w, currentBalance) run without interruption: the pair
\* <<pnl_records, dailyPnLCache[w]>> it leaves.
PnlRow(w, date, startBalance, endBalance) ==
  [walletAddress |-> w, userId |-> UserId(w), date |-> date,
   startBalance |-> startBalance, endBalance |-> endBalance,
   realizedPnl |-> 0, totalTrades |-> 0]

\* The last row is not looked at: the day starts from the current balance.
SeedFromCurrent(recs, w, currentBalance) == currentBalance

SeedBalance(recs, w, currentBalance) ==
  IF LastPnlRow(recs, w) # <<>> THEN recs[LastPnlRow(recs, w)[1]].endBalance
  ELSE currentBalance

FreshCache(date, startBalance, currentBalance) ==
  [present |-> TRUE, date |-> date, startBalance |-> startBalance,
   currentBalance |-> currentBalance, realizedPnl |-> 0, totalTrades |-> 0]

\* fetchWalletBalances at startup, wallet by wallet from position k of WalletOrder;
\* st = [recs, cache, ev].
RECURSIVE FetchWalletBalances(_, _, _)
FetchWalletBalances(aw, k, st) ==
  IF k > Len(WalletOrder) THEN st
  ELSE LET w == WalletOrder[k]
           date == DayStart(today)
           bal == ChainBalance(w)
           start == SeedBalance(st.recs, w, bal)
           fresh == PnlRowsFor(st.recs, w, date) = {}
       IN IF ~aw[w].present THEN FetchWalletBalances(aw, k + 1, st)
          ELSE FetchWalletBalances(aw, k + 1,
                 [recs |-> IF fresh THEN Append(st.recs, PnlRow(w, date, start, bal))
                           ELSE st.recs,
                  cache |-> IF fresh
                            THEN [st.cache EXCEPT ![w] = FreshCache(date, start, bal)]
                            ELSE st.cache,
                  ev |-> Append(st.ev, BalanceEvent(w))])

\* initialize(): loadActiveWallets, fetchWalletBalances, startPolling.
Initialize ==
  /\ UNCHANGED hubVars
  /\ UNCHANGED faultVars
  /\ ~running
  /\ LET new == NewWallets(activeWallets)
         aw == WithRecent(ReloadedWallets(activeWallets), new)
         st == FetchWalletBalances(aw, 1,
                 [recs |-> pnlRecords, cache |-> dailyPnLCache, ev |-> emitted])
     IN /\ activeWallets' = aw
        /\ processedTransactions' = processedTransactions \cup RecentOf(new)
        /\ pnlRecords' = st.recs
        /\ dailyPnLCache' = st.cache
        /\ emitted' = st.ev
  /\ running' = TRUE
  /\ UNCHANGED <<chain, published, today, isLive, trades, cyc, polls, restarts,
                 toggles, returned>>

\* No processTransaction call is in flight.
Quiescent == \A i \in Slots : cyc[i].pc \in {"idle", "fetch", "next"}

\* The process is stopped between two transactions and started again: memory
\* is lost, the Store is kept.
Restart ==
  /\ UNCHANGED hubVars
  /\ UNCHANGED failures
  /\ failed' = {}
  /\ running
  /\ Quiescent
  /\ restarts < MaxRestarts
  /\ restarts' = restarts + 1
  /\ running' = FALSE
  /\ activeWallets' = [w \in Wallets |-> NoWallet]
  /\ dailyPnLCache' = [w \in Wallets |-> NoCache]
  /\ processedTransactions' = {}
  /\ cyc' = [i \in Slots |-> Idle]
  /\ UNCHANGED <<chain, published, today, isLive, trades, pnlRecords, emitted,
                 polls, toggles, returned>>

\* startPolling: the interval timer fires and the callback runs loadActiveWallets.
Poll(i) ==
  /\ UNCHANGED hubVars
  /\ UNCHANGED faultVars
  /\ running
  /\ polls < MaxPolls
  /\ cyc[i].pc = "idle"
  /\ \A j \in Slots : j < i => cyc[j].pc # "idle"
  /\ polls' = polls + 1
  /\ LET new == NewWallets(activeWallets)
     IN /\ activeWallets' = WithRecent(ReloadedWallets(activeWallets), new)
        /\ processedTransactions' = processedTransactions \cup RecentOf(new)
  /\ cyc' = [cyc EXCEPT ![i] = [Idle EXCEPT !.pc = "fetch"]]
  /\ UNCHANGED <<chain, published, today, isLive, trades, pnlRecords, running,
                 dailyPnLCache, emitted, restarts, toggles, returned>>

\* fetchRecentTransactions: the next wallet of the map not yet visited.
NextWallet(visited) ==
  LET left == {k \in 1..Len(WalletOrder) :
                 WalletOrder[k] \notin visited /\ activeWallets[WalletOrder[k]].present}
  IN IF left = {} THEN 0 ELSE CHOOSE k \in left : \A j \in left : k <= j

\* fetchRecentTransactions: one wallet's signatures arrive.
FetchSignatures(i) ==
  /\ UNCHANGED hubVars
  /\ UNCHANGED faultVars
  /\ cyc[i].pc = "fetch"
  /\ LET k == NextWallet(cyc[i].visited)
         w == WalletOrder[k]
         signatures == ChainSignatures(w)
     IN IF k = 0
        THEN /\ cyc' = [cyc EXCEPT ![i] = Idle]
             /\ UNCHANGED activeWallets
        ELSE IF \/ signatures = <<>>
                \/ /\ activeWallets[w].lastSignature # NoSig
                   /\ signatures[1] = activeWallets[w].lastSignature
        THEN /\ cyc' = [cyc EXCEPT ![i].visited = @ \cup {w}]
             /\ UNCHANGED activeWallets
        ELSE /\ activeWallets' = [activeWallets EXCEPT ![w].lastSignature = signatures[1]]
             /\ cyc' = [cyc EXCEPT ![i].pc = "next", ![i].w = w,
                                   ![i].visited = @ \cup {w},
                                   ![i].sigs = SortByBlockTime(signatures)]
  /\ UNCHANGED <<chain, published, today, isLive, trades, pnlRecords, running,
                 dailyPnLCache, processedTransactions, emitted, polls, restarts,
                 toggles, returned>>

\* processTransaction returns: back to the loop of processTransactions.
Return(t) == [t EXCEPT !.pc = "next", !.sig = NoSig, !.tcs = <<>>, !.loc = NoLoc,
                       !.again = FALSE]

\* processTransactions / processTransaction: the next signature of the batch is
\* looked up in processedTransactions.
BeginTransaction(i) ==
  /\ UNCHANGED hubVars
  /\ UNCHANGED faultVars
  /\ cyc[i].pc = "next"
  /\ IF cyc[i].sigs = <<>>
     THEN /\ cyc' = [cyc EXCEPT ![i].pc = "fetch", ![i].sig = NoSig,
                                   ![i].again = FALSE]
          /\ UNCHANGED returned
     ELSE LET s == Head(cyc[i].sigs)
          IN IF s \in processedTransactions
             THEN /\ cyc' = [cyc EXCEPT ![i].sigs = Tail(@), ![i].sig = s,
                                        ![i].again = (s \in returned)]
                  /\ returned' = returned \cup {s}
             ELSE /\ cyc' = [cyc EXCEPT ![i].pc = "dbcheck", ![i].sig = s,
                                        ![i].sigs = Tail(@),
                                        ![i].again = (s \in returned)]
                  /\ UNCHANGED returned
  /\ UNCHANGED <<chain, published, today, isLive, trades, pnlRecords, running,
                 activeWallets, dailyPnLCache, processedTransactions, emitted,
                 polls, restarts, toggles>>

\* processTransaction: the Store lookup returns; block time and day are checked.
CheckExisting(i) ==
  /\ UNCHANGED hubVars
  /\ UNCHANGED faultVars
  /\ cyc[i].pc = "dbcheck"
  /\ LET s == cyc[i].sig
         blockTime == chain[s].blockTime
     IN IF \/ ExistingTrade(trades, s) # {}
           \/ blockTime = 0
           \/ ~IsToday(blockTime, today)
        THEN /\ processedTransactions' = processedTransactions \cup {s}
             /\ returned' = returned \cup {s}
             /\ cyc' = [cyc EXCEPT ![i] = Return(@)]
        ELSE /\ cyc' = [cyc EXCEPT ![i].pc = "parsed"]
             /\ UNCHANGED <<processedTransactions, returned>>
  /\ UNCHANGED <<chain, published, today, isLive, trades, pnlRecords, running,
                 activeWallets, dailyPnLCache, emitted, polls, restarts, toggles>>

\* classifyAndSaveTransaction: wrapped SOL entries are passed over.
RECURSIVE SkipWrapped(_)
SkipWrapped(tcs) ==
  IF tcs # <<>> /\ Head(tcs).mint = WSOL THEN SkipWrapped(Tail(tcs)) ELSE tcs

\* classifyAndSaveTransaction: the loop reaches token changes tcs.  With none
\* left, processTransaction adds the signature to the set and returns.
LoopAt(t, tcs) ==
  IF SkipWrapped(tcs) = <<>> THEN Return(t)
  ELSE [t EXCEPT !.pc = "saved", !.tcs = SkipWrapped(tcs), !.loc = NoLoc]

\* A failed transaction is classified like a successful one.
ParsedKeepsFailed(i) ==
  /\ UNCHANGED hubVars
  /\ UNCHANGED faultVars
  /\ cyc[i].pc = "parsed"
  /\ LET s == cyc[i].sig
         w == cyc[i].w
         tx == chain[s]
         tokenChanges == TokenChanges(tx, w)
         skip == ~tx.meta \/ ~tx.inKeys \/ Abs(SolChange(tx)) < SolEps
     IN IF skip
        THEN /\ processedTransactions' = processedTransactions \cup {s}
             /\ returned' = returned \cup {s}
             /\ cyc' = [cyc EXCEPT ![i] = Return(@)]
        ELSE IF tokenChanges = <<>>
        THEN /\ returned' = returned \cup {s}
             /\ cyc' = [cyc EXCEPT ![i] = Return(@)]
             /\ UNCHANGED processedTransactions
        ELSE LET t == LoopAt(cyc[i], tokenChanges)
             IN /\ cyc' = [cyc EXCEPT ![i] = t]
                /\ processedTransactions' =
                     IF t.pc = "next" THEN processedTransactions \cup {s}
                     ELSE processedTransactions
                /\ returned' = IF t.pc = "next" THEN returned \cup {s} ELSE returned
  /\ UNCHANGED <<chain, published, today, isLive, trades, pnlRecords, running,
                 activeWallets, dailyPnLCache, emitted, polls, restarts, toggles>>

\* processTransaction: the parsed transaction arrives.
Parsed(i) ==
  /\ UNCHANGED hubVars
  /\ UNCHANGED faultVars
  /\ cyc[i].pc = "parsed"
  /\ LET s == cyc[i].sig
         w == cyc[i].w
         tx == chain[s]
         tokenChanges == TokenChanges(tx, w)
         skip == ~tx.meta \/ ~tx.inKeys \/ Abs(SolChange(tx)) < SolEps
     IN IF skip
        THEN /\ processedTransactions' = processedTransactions \cup {s}
             /\ returned' = returned \cup {s}
             /\ cyc' = [cyc EXCEPT ![i] = Return(@)]
        ELSE IF tokenChanges = <<>>
        THEN /\ returned' = returned \cup {s}
             /\ cyc' = [cyc EXCEPT ![i] = Return(@)]
             /\ UNCHANGED processedTransactions
        ELSE LET t == LoopAt(cyc[i], IF tx.err THEN <<>> ELSE tokenChanges)
             IN /\ cyc' = [cyc EXCEPT ![i] = t]
                /\ processedTransactions' =
                     IF t.pc = "next" THEN processedTransactions \cup {s}
                     ELSE processedTransactions
                /\ returned' = IF t.pc = "next" THEN returned \cup {s} ELSE returned
  /\ UNCHANGED <<chain, published, today, isLive, trades, pnlRecords, running,
                 activeWallets, dailyPnLCache, emitted, polls, restarts, toggles>>

\* A block of processTransaction ends with the callback in state t: when the
\* call has returned, the signature is added to processedTransactions.
Resume(i, t) ==
  /\ cyc' = [cyc EXCEPT ![i] = t]
  /\ processedTransactions' =
       IF t.pc = "next" THEN processedTransactions \cup {cyc[i].sig}
       ELSE processedTransactions
  /\ returned' = IF t.pc = "next" THEN returned \cup {cyc[i].sig} ELSE returned

\* updateDailyPnL: the cache entry after a trade is applied.
ApplyTrade(cache, currentBalance, tradePnl) ==
  [cache EXCEPT !.totalTrades = IF tradePnl # 0 THEN @ + 1 ELSE @,
                !.currentBalance = currentBalance,
                !.realizedPnl = @ + tradePnl]

\* classifyAndSaveTransaction: the insert of one token change's row returns; for
\* a buy or sell the trade event is emitted and updateDailyPnL is entered.
TradeSaved(i) ==
  /\ UNCHANGED hubVars
  /\ UNCHANGED faultVars
  /\ cyc[i].pc = "saved"
  /\ LET s == cyc[i].sig
         w == cyc[i].w
         tx == chain[s]
         tc == Head(cyc[i].tcs)
         solChange == SolChange(tx)
         postSol == tx.postBalance
         tradePnl == TradePnl(tc.change, solChange)
         cache == dailyPnLCache[w]
         applied == ApplyTrade(cache, postSol, tradePnl)
     IN /\ trades' = UpsertTrade(trades,
                        TradeData(s, w, activeWallets[w].userId, tc, solChange,
                                  tx.blockTime))
        /\ IF ~IsTrade(tc.change, solChange)
           THEN /\ Resume(i, LoopAt(cyc[i], Tail(cyc[i].tcs)))
                /\ UNCHANGED <<emitted, dailyPnLCache>>
           ELSE /\ emitted' = Append(emitted, TradeEvent(w, s))
                /\ IF ~cache.present
                   THEN /\ Resume(i, [cyc[i] EXCEPT !.pc = "init_sel",
                                        !.loc = [NoLoc EXCEPT !.date = DayStart(today),
                                                              !.bal = postSol]])
                        /\ UNCHANGED dailyPnLCache
                   ELSE /\ dailyPnLCache' = [dailyPnLCache EXCEPT ![w] = applied]
                        /\ Resume(i, [cyc[i] EXCEPT !.pc = "pnl_upd",
                                        !.loc = [NoLoc EXCEPT !.date = cache.date,
                                                              !.bal = postSol,
                                                              !.rp = applied.realizedPnl,
                                                              !.tt = applied.totalTrades]])
  /\ UNCHANGED <<chain, published, today, isLive, pnlRecords, running,
                 activeWallets, polls, restarts, toggles>>

\* updateDailyPnL: the update of pnl_records returns and the pnl event is emitted.
PnlUpdated(i) ==
  /\ UNCHANGED hubVars
  /\ UNCHANGED faultVars
  /\ cyc[i].pc = "pnl_upd"
  /\ pnlRecords' = UpdatePnlRows(pnlRecords, cyc[i].w, cyc[i].loc.date,
                                 cyc[i].loc.bal, cyc[i].loc.rp, cyc[i].loc.tt)
  /\ emitted' = Append(emitted, PnlEvent(cyc[i].w, cyc[i].sig))
  /\ Resume(i, LoopAt(cyc[i], Tail(cyc[i].tcs)))
  /\ UNCHANGED <<chain, published, today, isLive, trades, running, activeWallets,
                 dailyPnLCache, polls, restarts, toggles>>

\* initializeDailyPnL called from updateDailyPnL: the lookups of today's row and
\* of the last row return.
InitSelected(i) ==
  /\ UNCHANGED hubVars
  /\ UNCHANGED faultVars
  /\ cyc[i].pc = "init_sel"
  /\ IF PnlRowsFor(pnlRecords, cyc[i].w, cyc[i].loc.date) # {}
     THEN Resume(i, LoopAt(cyc[i], Tail(cyc[i].tcs)))
     ELSE Resume(i, [cyc[i] EXCEPT !.pc = "init_ins",
                       !.loc.start = SeedBalance(pnlRecords, cyc[i].w, cyc[i].loc.bal)])
  /\ UNCHANGED <<chain, published, today, isLive, trades, pnlRecords, running,
                 activeWallets, dailyPnLCache, emitted, polls, restarts, toggles>>

\* initializeDailyPnL called from updateDailyPnL: the insert returns, the cache
\* is set, and updateDailyPnL returns without applying the trade.
InitInserted(i) ==
  /\ UNCHANGED hubVars
  /\ UNCHANGED faultVars
  /\ cyc[i].pc = "init_ins"
  /\ pnlRecords' = Append(pnlRecords, PnlRow(cyc[i].w, cyc[i].loc.date,
                                              cyc[i].loc.start, cyc[i].loc.bal))
  /\ dailyPnLCache' = [dailyPnLCache EXCEPT ![cyc[i].w] =
                         FreshCache(cyc[i].loc.date, cyc[i].loc.start, cyc[i].loc.bal)]
  /\ Resume(i, LoopAt(cyc[i], Tail(cyc[i].tcs)))
  /\ UNCHANGED <<chain, published, today, isLive, trades, running, activeWallets,
                 emitted, polls, restarts, toggles>>

\* processTransaction's catch: the signature is cached whatever was thrown.
CatchForgets(seen, s) == seen

CatchSeen(seen, s) == seen \cup {s}

\* The exception leaves processTransaction and ends the wallet's batch.
Propagated(t) == [t EXCEPT !.pc = "fetch", !.sig = NoSig, !.sigs = <<>>,
                           !.tcs = <<>>, !.loc = NoLoc, !.again = FALSE]

\* processTransaction's catch: the call returns to the loop of
\* processTransactions, which goes on with the rest of the batch.
Caught(t) == Return(t)

\* The RPC or Store call callback i awaits inside processTransaction is
\* rejected (or the block that resumes after it throws): the catch block runs.
Throw(i) ==
  /\ UNCHANGED hubVars
  /\ failures < MaxFailures
  /\ cyc[i].pc \in {"dbcheck", "parsed", "saved", "pnl_upd", "init_sel", "init_ins"}
  /\ failures' = failures + 1
  /\ failed' = failed \cup {cyc[i].sig}
  /\ processedTransactions' = CatchSeen(processedTransactions, cyc[i].sig)
  /\ returned' = returned \cup {cyc[i].sig}
  /\ cyc' = [cyc EXCEPT ![i] = Caught(@)]
  /\ UNCHANGED <<chain, published, today, isLive, trades, pnlRecords, running,
                 activeWallets, dailyPnLCache, emitted, polls, restarts, toggles>>

\* The exception ends the whole callback.
CycleAborted(t, w) == Idle

\* fetchRecentTransactions' catch: the loop goes on with the next wallet.
WalletSkipped(t, w) == [t EXCEPT !.visited = @ \cup {w}]

\* fetchRecentTransactions: getSignaturesForAddress is rejected for the next
\* wallet (stage "signatures"), or a getTransaction of processTransactions'
\* block time lookup is, after lastSignature was set (stage "blocktime").
FetchFailed(i, stage) ==
  /\ UNCHANGED hubVars
  /\ failures < MaxFailures
  /\ cyc[i].pc = "fetch"
  /\ NextWallet(cyc[i].visited) # 0
  /\ failures' = failures + 1
  /\ LET w == WalletOrder[NextWallet(cyc[i].visited)]
         signatures == ChainSignatures(w)
     IN /\ cyc' = [cyc EXCEPT ![i] = WalletSkipped(@, w)]
        /\ IF stage = "signatures"
           THEN UNCHANGED activeWallets
           ELSE /\ signatures # <<>>
                /\ activeWallets' =
                     [activeWallets EXCEPT ![w].lastSignature = signatures[1]]
  /\ UNCHANGED <<chain, published, today, isLive, trades, pnlRecords, running,
                 dailyPnLCache, processedTransactions, emitted, polls, restarts,
                 toggles, returned, failed>>

\* ------------------------------------------------------------ the world
\* Midnight in the reference timezone.
NextDay ==
  /\ UNCHANGED hubVars
  /\ UNCHANGED faultVars
  /\ today < MaxDay
  /\ today' = today + 1
  /\ UNCHANGED <<chain, published, isLive, trades, pnlRecords, running,
                 activeWallets, dailyPnLCache, processedTransactions, cyc, emitted,
                 polls, restarts, toggles, returned>>

\* users.is_live is changed out of band.
ToggleLive(w) ==
  /\ UNCHANGED hubVars
  /\ UNCHANGED faultVars
  /\ toggles < MaxToggles
  /\ toggles' = toggles + 1
  /\ isLive' = [isLive EXCEPT ![w] = ~@]
  /\ UNCHANGED <<chain, published, today, trades, pnlRecords, running,
                 activeWallets, dailyPnLCache, processedTransactions, cyc, emitted,
                 polls, restarts, returned>>

\* -------------------------------------------------------------- the hub
NoClient == [registered |-> FALSE, walletAddresses |-> {}, subscriptions |-> {}]

\* A frame on the wire: its kind, the wallet and the event it is about, and the
\* text of an ERROR frame ("" for the other kinds).
Frame(type, w, k) == [type |-> type, wallet |-> w, ev |-> k, message |-> ""]
ErrorFrame(errorMessage) == [Frame("ERROR", "W1", 0) EXCEPT !.message = errorMessage]
PerWalletTypes == {"TRADE_UPDATE", "BALANCE_UPDATE", "PNL_UPDATE"}
UpdateType(kind) ==
  IF kind = "trade" THEN "TRADE_UPDATE"
  ELSE IF kind = "balance" THEN "BALANCE_UPDATE" ELSE "PNL_UPDATE"

\* What the last hub step handled: a client frame ("message", with the frame's
\* type and wallet), an event of the monitor ("event"), the end of a
\* sendInitialUsersList ("list") or of a broadcastUserUpdate ("update", with its
\* outcome as type); "none" for the steps of a socket's life.
Step(kind, c, k, type, w) == [kind |-> kind, conn |-> c, ev |-> k, type |-> type, wallet |-> w]
NoStep == Step("none", 0, 0, "NONE", "W1")

\* What a client can put on the wire: the two requests, a frame of another
\* kind, and text that is not JSON.
ClientFrames ==
  {[type |-> t, wallet |-> w] : t \in {"SUBSCRIBE_WALLET", "UNSUBSCRIBE_WALLET"},
                                w \in Wallets}
    \cup {[type |-> "PING", wallet |-> "W1"], [type |-> "MALFORMED", wallet |-> "W1"]}

Silent == [c \in Conns |-> <<>>]

\* The frame is written whatever the state of the socket.
SendToAnyClient(o, c, frame) == [o EXCEPT ![c] = Append(@, frame)]

\* sendToClient: the frame is written only to a socket that is OPEN.  o holds
\* the frames the running handler has written so far.
SendToClient(o, c, frame) ==
  IF readyState[c] = "OPEN" THEN [o EXCEPT ![c] = Append(@, frame)] ELSE o

\* Every error is reported with the same text.
SendErrorGeneric(o, c, errorMessage) ==
  SendToClient(o, c, ErrorFrame("Unknown message type"))

\* The error goes to every registered client.
SendErrorToAll(o, c, errorMessage) ==
  [d \in Conns |->
     IF clients[d].registered /\ readyState[d] = "OPEN"
     THEN Append(o[d], ErrorFrame(errorMessage))
     ELSE o[d]]

\* sendError
SendError(o, c, errorMessage) == SendToClient(o, c, ErrorFrame(errorMessage))

\* A frame sent to each connection of the set cs (sockets are independent, the
\* order among them is not observable).
RECURSIVE SendToEach(_, _, _)
SendToEach(o, cs, frame) ==
  IF cs = {} THEN o
  ELSE LET c == CHOOSE c \in cs : TRUE
       IN SendToEach(SendToClient(o, c, frame), cs \ {c}, frame)

\* Every registered client, subscribed to w or not.
GetAllClients(w) == {c \in Conns : clients[c].registered}

\* getSubscribedClients
GetSubscribedClients(w) ==
  {c \in Conns : clients[c].registered /\ w \in clients[c].walletAddresses}

\* broadcastToWalletSubscribers
BroadcastToWalletSubscribers(o, w, frame) ==
  SendToEach(o, {c \in Conns : clients[c].registered
                                 /\ w \in clients[c].walletAddresses}, frame)

\* The frame goes to the subscribers of its wallet only.
BroadcastToSubscribed(o, frame) ==
  SendToEach(o, {c \in Conns : clients[c].registered
                                 /\ frame.wallet \in clients[c].walletAddresses}, frame)

\* broadcastToAll
BroadcastToAll(o, frame) ==
  SendToEach(o, {c \in Conns : clients[c].registered}, frame)

\* A repeated subscription takes the wallet out of the set again.
ToggleWallet(client, w) ==
  IF w \in client.walletAddresses
  THEN [client EXCEPT !.walletAddresses = @ \ {w}, !.subscriptions = @ \ {w}]
  ELSE [client EXCEPT !.walletAddresses = @ \cup {w}, !.subscriptions = @ \cup {w}]

\* handleSubscribeWallet / handleUnsubscribeWallet: the client record afterwards.
SubscribeWallet(client, w) ==
  [client EXCEPT !.walletAddresses = @ \cup {w}, !.subscriptions = @ \cup {w}]

\* Unsubscribing from one wallet drops every subscription.
UnsubscribeAll(client, w) ==
  [client EXCEPT !.walletAddresses = {}, !.subscriptions = {}]

UnsubscribeWallet(client, w) ==
  [client EXCEPT !.walletAddresses = @ \ {w}, !.subscriptions = @ \ {w}]

\* The frames o a handler wrote reach the sockets.
Written(o) ==
  /\ out' = o
  /\ firstFrame' = [c \in Conns |->
                      IF firstFrame[c] # "NONE" \/ o[c] = <<>> THEN firstFrame[c]
                      ELSE IF o[c][1].type = "USERS_LIST" THEN "USERS_LIST"
                      ELSE "OTHER"]
  /\ listFrames' = [c \in Conns |->
                      listFrames[c]
                        + Cardinality({n \in 1..Len(o[c]) : o[c][n].type = "USERS_LIST"})]

\* handleConnection: the client is registered, its listeners are set, and
\* sendInitialUsersList starts reading the Store.
HandleConnection(c) ==
  /\ readyState[c] = "NONE"
  /\ \A d \in Conns : d < c => readyState[d] # "NONE"
  /\ readyState' = [readyState EXCEPT ![c] = "OPEN"]
  /\ clients' = [clients EXCEPT ![c] = [NoClient EXCEPT !.registered = TRUE]]
  /\ listTasks' = listTasks \cup {c}
  /\ Written(Silent)
  /\ step' = NoStep
  /\ UNCHANGED <<evt, msgs, wants>>
  /\ UNCHANGED monitorVars
  /\ UNCHANGED snapshotVars
  /\ UNCHANGED tokenVars

\* sendInitialUsersList: the snapshots are assembled (ok) or a read failed.
UsersListSent(c, ok) ==
  /\ c \in listTasks
  /\ listTasks' = listTasks \ {c}
  /\ Written(IF ok THEN SendToClient(Silent, c, Frame("USERS_LIST", "W1", 0))
             ELSE SendError(Silent, c, "Failed to fetch users data"))
  /\ step' = Step("list", c, 0, IF ok THEN "sent" ELSE "failed", "W1")
  /\ UNCHANGED <<clients, readyState, evt, msgs, wants>>
  /\ UNCHANGED monitorVars
  /\ UNCHANGED snapshotVars
  /\ UNCHANGED tokenVars

\* handleMessage
HandleMessage(c, m) ==
  /\ readyState[c] \in {"OPEN", "CLOSING"}
  /\ msgs < MaxMsgs
  /\ msgs' = msgs + 1
  /\ step' = Step("message", c, 0, m.type, m.wallet)
  /\ wants' = IF m.type = "SUBSCRIBE_WALLET" THEN [wants EXCEPT ![c] = @ \cup {m.wallet}]
              ELSE IF m.type = "UNSUBSCRIBE_WALLET"
                   THEN [wants EXCEPT ![c] = @ \ {m.wallet}]
              ELSE wants
  /\ IF m.type = "MALFORMED"
     THEN /\ Written(SendError(Silent, c, "Invalid message format"))
          /\ UNCHANGED clients
     ELSE IF ~clients[c].registered
     THEN /\ Written(Silent)
          /\ UNCHANGED clients
     ELSE IF m.type = "SUBSCRIBE_WALLET"
     THEN /\ clients' = [clients EXCEPT ![c] = SubscribeWallet(@, m.wallet)]
          /\ Written(SendToClient(Silent, c, Frame("SUBSCRIBE_WALLET", m.wallet, 0)))
     ELSE IF m.type = "UNSUBSCRIBE_WALLET"
     THEN /\ clients' = [clients EXCEPT ![c] = UnsubscribeWallet(@, m.wallet)]
          /\ Written(SendToClient(Silent, c, Frame("UNSUBSCRIBE_WALLET", m.wallet, 0)))
     ELSE /\ Written(SendError(Silent, c, "Unknown message type"))
          /\ UNCHANGED clients
  /\ UNCHANGED <<readyState, listTasks, evt>>
  /\ UNCHANGED monitorVars
  /\ UNCHANGED snapshotVars
  /\ UNCHANGED tokenVars

\* The socket starts closing: readyState is no longer OPEN, the close event has
\* not been delivered yet.
SocketClosing(c) ==
  /\ readyState[c] = "OPEN"
  /\ readyState' = [readyState EXCEPT ![c] = "CLOSING"]
  /\ Written(Silent)
  /\ step' = NoStep
  /\ UNCHANGED <<clients, listTasks, evt, msgs, wants>>
  /\ UNCHANGED monitorVars
  /\ UNCHANGED snapshotVars
  /\ UNCHANGED tokenVars

\* The close event leaves the client in the map.
HandleDisconnectionKeeps(c) ==
  /\ readyState[c] = "CLOSING"
  /\ readyState' = [readyState EXCEPT ![c] = "CLOSED"]
  /\ Written(Silent)
  /\ wants' = [wants EXCEPT ![c] = {}]
  /\ step' = NoStep
  /\ UNCHANGED <<clients, listTasks, evt, msgs>>
  /\ UNCHANGED monitorVars
  /\ UNCHANGED snapshotVars
  /\ UNCHANGED tokenVars

\* handleDisconnection: the close event.
HandleDisconnection(c) ==
  /\ readyState[c] = "CLOSING"
  /\ readyState' = [readyState EXCEPT ![c] = "CLOSED"]
  /\ clients' = [clients EXCEPT ![c] = NoClient]
  /\ Written(Silent)
  /\ wants' = [wants EXCEPT ![c] = {}]
  /\ step' = NoStep
  /\ UNCHANGED <<listTasks, evt, msgs>>
  /\ UNCHANGED monitorVars
  /\ UNCHANGED snapshotVars
  /\ UNCHANGED tokenVars

\* handleTradeUpdate / handleBalanceUpdate / handlePnLUpdate for an event of the
\* monitor: the per-wallet frame goes out at once, broadcastUserUpdate starts
\* reading the Store.
HandleUpdate(kind, w) ==
  /\ Len(evt) < MaxEvents
  /\ evt' = Append(evt, [wallet |-> w, state |-> "assembling"])
  /\ Written(IF kind = "trade"
             THEN SendToEach(Silent, GetSubscribedClients(w),
                             Frame("TRADE_UPDATE", w, Len(evt) + 1))
             ELSE BroadcastToWalletSubscribers(Silent, w,
                             Frame(UpdateType(kind), w, Len(evt) + 1)))
  /\ step' = Step("event", 0, Len(evt) + 1, UpdateType(kind), w)
  /\ UNCHANGED <<clients, readyState, listTasks, msgs, wants>>
  /\ UNCHANGED monitorVars
  /\ UNCHANGED snapshotVars
  /\ UNCHANGED tokenVars

HandleTradeUpdate(w) == HandleUpdate("trade", w)
HandleBalanceUpdate(w) == HandleUpdate("balance", w)
HandlePnLUpdate(w) == HandleUpdate("pnl", w)

\* broadcastUserUpdate for event k ends: the snapshot is broadcast ("sent"), the
\* wallet has no users row ("nouser"), or a read failed ("failed").
BroadcastUserUpdate(k, outcome) ==
  /\ k \in 1..Len(evt)
  /\ evt[k].state = "assembling"
  /\ evt' = [evt EXCEPT ![k].state = "done"]
  /\ Written(IF outcome = "sent"
             THEN BroadcastToAll(Silent, Frame("USERS_UPDATE", evt[k].wallet, k))
             ELSE Silent)
  /\ step' = Step("update", 0, k, outcome, evt[k].wallet)
  /\ UNCHANGED <<clients, readyState, listTasks, msgs, wants>>
  /\ UNCHANGED monitorVars
  /\ UNCHANGED snapshotVars
  /\ UNCHANGED tokenVars

\* ------------------------------------------------- the hub's snapshots
\* A snapshot without a pnl_records row: dailyPnl is null.
NoPnl == [walletAddress |-> "", userId |-> 0, date |-> 0, startBalance |-> 0,
          endBalance |-> 0, realizedPnl |-> 0, totalTrades |-> 0]

\* sendInitialUsersList / broadcastUserUpdate: the pnl_records row a snapshot of
\* wallet w carries as dailyPnl.
DailyPnlOf(recs, w) ==
  IF LastPnlRow(recs, w) = <<>> THEN NoPnl ELSE recs[LastPnlRow(recs, w)[1]]

\* The snapshot of wallet w assembled for event n of the monitor (n = 0: for the
\* USERS_LIST of a connection).  at is history: the number of events emitted
\* at the time of the read.
UserData(n, w) ==
  [ev |-> n, wallet |-> w, at |-> Len(emitted),
   dailyPnl |-> DailyPnlOf(pnlRecords, w),
   balance |-> DailyPnlOf(pnlRecords, w).endBalance]

\* The events whose snapshot was read already.
Assembled == {d.ev : d \in userData} \cup {delivered[j].ev : j \in 1..Len(delivered)}

\* sendInitialUsersList (n = 0) / broadcastUserUpdate for event n of the
\* monitor: the pnl_records read.
ReadUserData(n) ==
  /\ n \in 0..Len(emitted)
  /\ n \notin Assembled
  /\ Cardinality(userData) + Len(delivered) < MaxSnapshots
  /\ userData' = userData \cup {UserData(n, IF n = 0 THEN "W1" ELSE emitted[n].wallet)}
  /\ UNCHANGED <<clients, readyState, out, firstFrame, listFrames, listTasks, evt,
                 msgs, step, wants, delivered>>
  /\ UNCHANGED monitorVars
  /\ UNCHANGED tokenVars

\* sendInitialUsersList / broadcastUserUpdate: the snapshot d is sent in a
\* USERS_LIST (d.ev = 0) or USERS_UPDATE frame.
SendUserData(d) ==
  /\ d \in userData
  /\ userData' = userData \ {d}
  /\ delivered' = Append(delivered, d)
  /\ UNCHANGED <<clients, readyState, out, firstFrame, listFrames, listTasks, evt,
                 msgs, step, wants>>
  /\ UNCHANGED monitorVars
  /\ UNCHANGED tokenVars

\* ------------------------------------------- the token metadata service
\* A mint the tokens table or tokenCache does not hold.  lastPrice 0 is null.
NoToken == [present |-> FALSE, lastPrice |-> 0]
NoCall == [op |-> "none", pc |-> "idle", mint |-> "M1", row |-> NoToken, price |-> 0]

\* The monitor, the connections and the snapshots take no part in a step of the
\* token metadata service.
TokenOnly ==
  /\ UNCHANGED <<clients, readyState, out, firstFrame, listFrames, listTasks, evt,
                 msgs, step, wants>>
  /\ UNCHANGED snapshotVars
  /\ UNCHANGED monitorVars

\* update tokens set last_price = price where address = mint
UpdatePrice(table, mint, price) ==
  IF table[mint].present THEN [table EXCEPT ![mint].lastPrice = price] ELSE table

\* getTokenMetadata(mint) misses the cache and queries the tokens table.  (A
\* call that hits the cache returns the entry at once and changes nothing.)
GetTokenMetadata(c, mint) ==
  /\ TokenOnly
  /\ tokenCalls[c].pc = "idle"
  /\ tokenOps < MaxTokenOps
  /\ ~tokenCache[mint].present
  /\ tokenOps' = tokenOps + 1
  /\ tokenCalls' = [tokenCalls EXCEPT ![c] = [NoCall EXCEPT !.op = "get", !.pc = "select",
                                                            !.mint = mint]]
  /\ UNCHANGED <<tokensTable, tokenCache>>

\* The Store runs the select of getTokenMetadata.
TokenSelected(c) ==
  /\ TokenOnly
  /\ tokenCalls[c].pc = "select"
  /\ tokenCalls' = [tokenCalls EXCEPT ![c].pc = "selected",
                                      ![c].row = tokensTable[tokenCalls[c].mint]]
  /\ UNCHANGED <<tokensTable, tokenCache, tokenOps>>

\* getTokenMetadata after the select: a row found is cached and returned;
\* otherwise the metadata is fetched from the chain.
TokenFound(c) ==
  /\ TokenOnly
  /\ tokenCalls[c].pc = "selected"
  /\ IF tokenCalls[c].row.present
     THEN /\ tokenCache' = [tokenCache EXCEPT ![tokenCalls[c].mint] = tokenCalls[c].row]
          /\ tokenCalls' = [tokenCalls EXCEPT ![c] = NoCall]
     ELSE /\ tokenCalls' = [tokenCalls EXCEPT ![c].pc = "fetch"]
          /\ UNCHANGED tokenCache
  /\ UNCHANGED <<tokensTable, tokenOps>>

\* fetchTokenMetadata has returned (metadata or null): saveTokenMetadata
\* sends the upsert, lastPrice null either way.
TokenFetched(c) ==
  /\ TokenOnly
  /\ tokenCalls[c].pc = "fetch"
  /\ tokenCalls' = [tokenCalls EXCEPT ![c].pc = "upsert"]
  /\ UNCHANGED <<tokensTable, tokenCache, tokenOps>>

\* The Store runs the upsert of saveTokenMetadata and returns the row.
TokenUpserted(c) ==
  /\ TokenOnly
  /\ tokenCalls[c].pc = "upsert"
  /\ tokensTable' = [tokensTable EXCEPT ![tokenCalls[c].mint] =
                       [present |-> TRUE, lastPrice |-> 0]]
  /\ tokenCalls' = [tokenCalls EXCEPT ![c].pc = "saved",
                                      ![c].row = [present |-> TRUE, lastPrice |-> 0]]
  /\ UNCHANGED <<tokenCache, tokenOps>>

\* saveTokenMetadata after the upsert: the returned row is cached.
TokenSaved(c) ==
  /\ TokenOnly
  /\ tokenCalls[c].pc = "saved"
  /\ tokenCache' = [tokenCache EXCEPT ![tokenCalls[c].mint] = tokenCalls[c].row]
  /\ tokenCalls' = [tokenCalls EXCEPT ![c] = NoCall]
  /\ UNCHANGED <<tokensTable, tokenOps>>

\* updateTokenPrice(mint, price) sends the update.
UpdateTokenPrice(c, mint, price) ==
  /\ TokenOnly
  /\ tokenCalls[c].pc = "idle"
  /\ tokenOps < MaxTokenOps
  /\ tokenOps' = tokenOps + 1
  /\ tokenCalls' = [tokenCalls EXCEPT ![c] = [NoCall EXCEPT !.op = "price", !.pc = "update",
                                                            !.mint = mint, !.price = price]]
  /\ UNCHANGED <<tokensTable, tokenCache>>

\* The Store runs the update of updateTokenPrice.
TokenUpdated(c) ==
  /\ TokenOnly
  /\ tokenCalls[c].pc = "update"
  /\ tokensTable' = UpdatePrice(tokensTable, tokenCalls[c].mint, tokenCalls[c].price)
  /\ tokenCalls' = [tokenCalls EXCEPT ![c].pc = "updated"]
  /\ UNCHANGED <<tokenCache, tokenOps>>

\* updateTokenPrice after the update: the cache entry is refreshed if present.
TokenPriceCached(c) ==
  /\ TokenOnly
  /\ tokenCalls[c].pc = "updated"
  /\ tokenCache' = IF tokenCache[tokenCalls[c].mint].present
                   THEN [tokenCache EXCEPT ![tokenCalls[c].mint].lastPrice = tokenCalls[c].price]
                   ELSE tokenCache
  /\ tokenCalls' = [tokenCalls EXCEPT ![c] = NoCall]
  /\ UNCHANGED <<tokensTable, tokenOps>>

\* ------------------------------------------------------ specifications
MonitorInit(chains, lives) ==
  /\ chain \in chains
  /\ published = [n \in 1..NumSigs |-> n]
  /\ today = 1
  /\ isLive \in lives
  /\ trades = <<>>
  /\ pnlRecords = <<>>
  /\ running = FALSE
  /\ activeWallets = [w \in Wallets |-> NoWallet]
  /\ dailyPnLCache = [w \in Wallets |-> NoCache]
  /\ processedTransactions = {}
  /\ cyc = [i \in Slots |-> Idle]
  /\ emitted = <<>>
  /\ polls = 0
  /\ restarts = 0
  /\ toggles = 0
  /\ returned = {}
  /\ failures = 0
  /\ failed = {}

HubInit ==
  /\ clients = [c \in Conns |-> NoClient]
  /\ readyState = [c \in Conns |-> "NONE"]
  /\ out = Silent
  /\ firstFrame = [c \in Conns |-> "NONE"]
  /\ listFrames = [c \in Conns |-> 0]
  /\ listTasks = {}
  /\ evt = <<>>
  /\ msgs = 0
  /\ step = NoStep
  /\ wants = [c \in Conns |-> {}]
  /\ userData = {}
  /\ delivered = <<>>
  /\ tokensTable = [mint \in Mints |-> NoToken]
  /\ tokenCache = [mint \in Mints |-> NoToken]
  /\ tokenCalls = [c \in TokenSlots |-> NoCall]
  /\ tokenOps = 0

\* The monitor with the Store and the chain; the hub is left out.
Init ==
  /\ MonitorInit([Sigs -> TxShapes("W1")],
                 {[w \in Wallets |-> w = "W1" /\ b] : b \in BOOLEAN})
  /\ HubInit

Next ==
  \/ Initialize
  \/ Restart
  \/ \E i \in Slots : Poll(i)
  \/ \E i \in Slots : FetchSignatures(i)
  \/ \E i \in Slots : BeginTransaction(i)
  \/ \E i \in Slots : CheckExisting(i)
  \/ \E i \in Slots : Parsed(i)
  \/ \E i \in Slots : TradeSaved(i)
  \/ \E i \in Slots : PnlUpdated(i)
  \/ \E i \in Slots : InitSelected(i)
  \/ \E i \in Slots : InitInserted(i)
  \/ NextDay
  \/ \E w \in Wallets : ToggleLive(w)

Spec == Init /\ [][Next]_vars

\* The hub with its connections; the monitor's events are its inputs.
HubSpecInit ==
  /\ MonitorInit({[s \in Sigs |-> CHOOSE x \in TxShapes("W1") : TRUE]},
                 {[w \in Wallets |-> w = "W1"]})
  /\ HubInit

HubNext ==
  \/ \E c \in Conns : HandleConnection(c)
  \/ \E c \in Conns, ok \in BOOLEAN : UsersListSent(c, ok)
  \/ \E c \in Conns, m \in ClientFrames : HandleMessage(c, m)
  \/ \E c \in Conns : SocketClosing(c)
  \/ \E c \in Conns : HandleDisconnection(c)
  \/ \E w \in Wallets : HandleTradeUpdate(w)
  \/ \E w \in Wallets : HandleBalanceUpdate(w)
  \/ \E w \in Wallets : HandlePnLUpdate(w)
  \/ \E k \in 1..MaxEvents, o \in {"sent", "nouser", "failed"} : BroadcastUserUpdate(k, o)

HubSpec == HubSpecInit /\ [][HubNext]_vars

\* One polling callback at a time, over every transaction of TxCases.
TxInit ==
  /\ MonitorInit([Sigs -> TxCases("W1")], {[w \in Wallets |-> w = "W1"]})
  /\ HubInit

TxNext ==
  \/ Initialize
  \/ Restart
  \/ Poll(1)
  \/ FetchSignatures(1)
  \/ BeginTransaction(1)
  \/ CheckExisting(1)
  \/ Parsed(1)
  \/ TradeSaved(1)
  \/ PnlUpdated(1)
  \/ InitSelected(1)
  \/ InitInserted(1)
  \/ NextDay

TxSpec == TxInit /\ [][TxNext]_vars

\* One polling callback at a time, with calls that fail; both wallets can be
\* live.
FailInit ==
  /\ MonitorInit([Sigs -> TxShapes("W1")],
                 {[w \in Wallets |-> w = "W1" \/ b] : b \in BOOLEAN})
  /\ HubInit

FailNext ==
  \/ Initialize
  \/ Poll(1)
  \/ FetchSignatures(1)
  \/ \E stage \in {"signatures", "blocktime"} : FetchFailed(1, stage)
  \/ BeginTransaction(1)
  \/ CheckExisting(1)
  \/ Parsed(1)
  \/ TradeSaved(1)
  \/ PnlUpdated(1)
  \/ Throw(1)

FailSpec == FailInit /\ [][FailNext]_vars

\* The monitor with one polling callback, midnight, and the hub's snapshot
\* assemblies reading the Store while the monitor writes it.
SnapInit ==
  /\ MonitorInit([Sigs -> TxShapes("W1")], {[w \in Wallets |-> w = "W1"]})
  /\ HubInit

SnapNext ==
  \/ Initialize
  \/ Poll(1)
  \/ FetchSignatures(1)
  \/ BeginTransaction(1)
  \/ CheckExisting(1)
  \/ Parsed(1)
  \/ TradeSaved(1)
  \/ PnlUpdated(1)
  \/ NextDay
  \/ \E n \in 0..Len(emitted) : ReadUserData(n)
  \/ \E d \in userData : SendUserData(d)

SnapSpec == SnapInit /\ [][SnapNext]_vars

\* The token metadata service alone: getTokenMetadata and updateTokenPrice
\* calls whose Store requests interleave.
TokenInit ==
  /\ MonitorInit({[n \in Sigs |-> BuyAt("W1", DayStart(1) + n)]},
                 {[w \in Wallets |-> w = "W1"]})
  /\ HubInit

TokenNext ==
  \/ \E c \in TokenSlots : \E mint \in Mints : GetTokenMetadata(c, mint)
  \/ \E c \in TokenSlots : TokenSelected(c)
  \/ \E c \in TokenSlots : TokenFound(c)
  \/ \E c \in TokenSlots : TokenFetched(c)
  \/ \E c \in TokenSlots : TokenUpserted(c)
  \/ \E c \in TokenSlots : TokenSaved(c)
  \/ \E c \in TokenSlots : \E mint \in Mints : \E price \in 1..MaxPrice :
       UpdateTokenPrice(c, mint, price)
  \/ \E c \in TokenSlots : TokenUpdated(c)
  \/ \E c \in TokenSlots : TokenPriceCached(c)

TokenSpec == TokenInit /\ [][TokenNext]_vars

\* ------------------------------------------------- claims on the monitor
\* The positions of the buy and sell rows of wallet w whose timestamp is in the
\* day that starts at date.
DayTrades(w, date) ==
  {j \in 1..Len(trades) :
     /\ trades[j].walletAddress = w
     /\ trades[j].type \in {"buy", "sell"}
     /\ DayStart(date \div DayTicks) <= trades[j].timestamp
     /\ trades[j].timestamp <= DayEnd(date \div DayTicks)}

RECURSIVE SumTradePnl(_)
SumTradePnl(js) ==
  IF js = {} THEN 0
  ELSE LET j == CHOOSE j \in js : TRUE
       IN trades[j].tradePnl + SumTradePnl(js \ {j})

\* The trade events emitted so far for signature s.
TradeEventsOf(s) ==
  {n \in 1..Len(emitted) : emitted[n].kind = "trade" /\ emitted[n].sig = s}

\* The signature of the trade classified last for wallet w (NoSig if none).
LastClassified(w) ==
  LET ns == {n \in 1..Len(emitted) : emitted[n].kind = "trade" /\ emitted[n].wallet = w}
  IN IF ns = {} THEN NoSig ELSE emitted[CHOOSE n \in ns : \A m \in ns : m <= n].sig

\* Callback i takes a step of a processTransaction call for a signature that an
\* earlier call has already returned for.
SecondPassStep(i) ==
  /\ cyc'[i] # cyc[i]
  /\ restarts' = restarts
  /\ \/ /\ cyc[i].pc = "next"
        /\ cyc[i].sigs # <<>>
        /\ Head(cyc[i].sigs) \in returned
     \/ /\ cyc[i].pc \in {"dbcheck", "parsed", "saved", "pnl_upd", "init_sel", "init_ins"}
        /\ cyc[i].again

\* C1: processing a signature a second time, after an earlier processTransaction
\* call for it has returned (same cycle, later cycle, after a restart), changes
\* nothing: the trades table keeps its rows (at most one for the signature), no
\* event is emitted, and pnl_records and the PnL cache are unchanged.
C1_SecondPassChangesNothing ==
  [][\A i \in Slots :
       SecondPassStep(i) =>
         /\ trades' = trades
         /\ emitted' = emitted
         /\ pnlRecords' = pnlRecords
         /\ dailyPnLCache' = dailyPnLCache
         /\ \A s \in Sigs : Cardinality(ExistingTrade(trades', s)) <= 1]_vars

\* C1 witness: a callback has just passed over a signature for the second time;
\* its buy or sell row is stored once and its Trade event was emitted once.
C1_Witness ==
  \E i \in Slots :
    /\ cyc[i].pc = "next"
    /\ cyc[i].sig # NoSig
    /\ cyc[i].again
    /\ Cardinality(ExistingTrade(trades, cyc[i].sig)) = 1
    /\ Cardinality(TradeEventsOf(cyc[i].sig)) = 1

\* C2 (as claimed): whenever no transaction is being processed, totalTrades of
\* every pnl_records row equals the number of buy and sell rows of the trades
\* table for that wallet and day.
C2_TotalTradesIsTradeCount ==
  Quiescent =>
    \A k \in 1..Len(pnlRecords) :
      pnlRecords[k].totalTrades
        = Cardinality(DayTrades(pnlRecords[k].walletAddress, pnlRecords[k].date))

\* C3 (as claimed): whenever no transaction is being processed, realizedPnl of
\* every pnl_records row equals the sum of tradePnl over the buy and sell rows
\* of the trades table for that wallet and day.
C3_RealizedPnlIsSum ==
  Quiescent =>
    \A k \in 1..Len(pnlRecords) :
      pnlRecords[k].realizedPnl
        = SumTradePnl(DayTrades(pnlRecords[k].walletAddress, pnlRecords[k].date))

\* C4 (as claimed): whenever no transaction is being processed and the trade
\* classified last for a wallet is of today, endBalance of today's pnl_records
\* row of the wallet is the post-transaction SOL balance of that trade.
C4_EndBalanceIsLastPostBalance ==
  Quiescent =>
    \A w \in Wallets :
      LET s == LastClassified(w)
      IN (s # NoSig /\ IsToday(chain[s].blockTime, today)) =>
           \A k \in PnlRowsFor(pnlRecords, w, DayStart(today)) :
             pnlRecords[k].endBalance = chain[s].postBalance

\* C5 (as claimed): pnl_records holds at most one row per wallet and day.
C5_OneRowPerWalletDay ==
  \A w \in Wallets, d \in Days :
    Cardinality(PnlRowsFor(pnlRecords, w, DayStart(d))) <= 1

\* ----------------------------------------------------- claims on the hub
\* The frames of type t the last step wrote to connection c.
FramesOf(c, t) == {n \in 1..Len(out[c]) : out[c][n].type = t}

\* C6: a TRADE_UPDATE, BALANCE_UPDATE or PNL_UPDATE frame for a wallet is written
\* only to a connection that has asked for the wallet and has not given it up
\* when the event is handled.
C6_PerWalletFramesOnlyToSubscribers ==
  \A c \in Conns : \A n \in 1..Len(out[c]) :
    out[c][n].type \in PerWalletTypes => out[c][n].wallet \in wants[c]

\* C6 witness: a trade of W2 is handled while connection 1 holds W1 only and
\* connection 2 holds W2; the frame goes to connection 2 and not to connection 1.
C6_Witness ==
  /\ step.kind = "event" /\ step.type = "TRADE_UPDATE" /\ step.wallet = "W2"
  /\ readyState[1] = "OPEN" /\ wants[1] = {"W1"} /\ out[1] = <<>>
  /\ "W2" \in wants[2] /\ out[2] = <<Frame("TRADE_UPDATE", "W2", step.ev)>>

\* C7 (as claimed): when broadcastUserUpdate ends for an event, every open
\* connection has been sent one USERS_UPDATE frame for the event's wallet.
C7_EveryEventBroadcast ==
  step.kind = "update" =>
    \A c \in Conns :
      readyState[c] = "OPEN" =>
        out[c] = <<Frame("USERS_UPDATE", step.wallet, step.ev)>>

\* C7 (amended): when broadcastUserUpdate ends for an event and the snapshot
\* was assembled, every connection that is registered and open at that moment
\* is sent exactly one USERS_UPDATE frame for the event's wallet, subscribed or
\* not, and nothing else is sent; when the wallet has no users row or a read
\* failed, nothing is sent.
C7_AssembledSnapshotBroadcast ==
  step.kind = "update" =>
    \A c \in Conns :
      out[c] = IF step.type = "sent" /\ clients[c].registered /\ readyState[c] = "OPEN"
               THEN <<Frame("USERS_UPDATE", step.wallet, step.ev)>>
               ELSE <<>>

\* C7 witness: a snapshot was broadcast to two open connections, one of which
\* does not hold the wallet.
C7_Witness ==
  /\ step.kind = "update" /\ step.type = "sent"
  /\ \A c \in Conns : readyState[c] = "OPEN" /\ Len(out[c]) = 1
  /\ \E c \in Conns : step.wallet \notin wants[c]
  /\ \E c \in Conns : step.wallet \in wants[c]

\* C8: when a Trade event for a wallet is handled, every open connection that
\* has asked for the wallet (once or several times) and has not given it up is
\* sent exactly one TRADE_UPDATE frame for the event.
C8_OneTradeUpdatePerEvent ==
  (step.kind = "event" /\ step.type = "TRADE_UPDATE") =>
    \A c \in Conns :
      (readyState[c] = "OPEN" /\ step.wallet \in wants[c]) =>
        out[c] = <<Frame("TRADE_UPDATE", step.wallet, step.ev)>>

\* C8 witness: the second Trade event of a wallet reaches a connection that
\* holds the wallet, as one frame.
C8_Witness ==
  /\ step.kind = "event" /\ step.type = "TRADE_UPDATE" /\ step.ev = 2
  /\ evt[1].wallet = step.wallet
  /\ msgs = 2
  /\ readyState[2] = "NONE"
  /\ wants[1] = {step.wallet}
  /\ Cardinality(FramesOf(1, "TRADE_UPDATE")) = 1

\* C9 (as claimed): handling a SUBSCRIBE_WALLET frame sends a USERS_UPDATE frame
\* to the subscribing connection.
C9_SubscribeSendsUsersUpdate ==
  (step.kind = "message" /\ step.type = "SUBSCRIBE_WALLET"
     /\ readyState[step.conn] = "OPEN") =>
    FramesOf(step.conn, "USERS_UPDATE") # {}

\* C9 (amended): handling a SUBSCRIBE_WALLET frame sends the subscribing
\* connection, if its socket is open, exactly one SUBSCRIBE_WALLET
\* acknowledgement for the wallet and no USERS_UPDATE; no other connection is
\* sent anything.
C9_SubscribeSendsAck ==
  (step.kind = "message" /\ step.type = "SUBSCRIBE_WALLET") =>
    \A c \in Conns :
      out[c] = IF c = step.conn /\ readyState[c] = "OPEN"
               THEN <<Frame("SUBSCRIBE_WALLET", step.wallet, 0)>>
               ELSE <<>>

\* C9 witness: an open connection subscribed and holds the acknowledgement.
C9_Witness ==
  /\ step.kind = "message" /\ step.type = "SUBSCRIBE_WALLET"
  /\ readyState[step.conn] = "OPEN"
  /\ step.wallet \in clients[step.conn].walletAddresses
  /\ out[step.conn] = <<Frame("SUBSCRIBE_WALLET", step.wallet, 0)>>

\* C10 (as claimed): a connection is sent at most one USERS_LIST frame, and
\* when it has been sent one, that frame was the first frame written to it.
C10_UsersListFirst ==
  \A c \in Conns :
    /\ listFrames[c] <= 1
    /\ listFrames[c] = 1 => firstFrame[c] = "USERS_LIST"

\* The frames of out[c] (or of another outbox o) that are about an event.
EventFrames(o, c) == {n \in 1..Len(o[c]) : o[c][n].ev # 0}

\* C11 (as claimed): on every connection, a frame about a wallet's event is
\* never written right after a frame about a later event of the same wallet:
\* the TRADE_UPDATE, BALANCE_UPDATE, PNL_UPDATE and USERS_UPDATE frames of a
\* wallet reach a connection in the order the monitor emitted their events.
C11_FramesInEmitOrder ==
  [][\A c \in Conns :
       \A n \in EventFrames(out, c) : \A m \in EventFrames(out', c) :
         out[c][n].wallet = out'[c][m].wallet => out[c][n].ev <= out'[c][m].ev]_vars

\* C12: every registered connection's subscribed set is the set obtained by
\* applying its SUBSCRIBE_WALLET / UNSUBSCRIBE_WALLET frames as set-add and
\* set-remove in frame order, and the step that handled such a frame wrote
\* exactly one frame, of the same kind and for the same wallet, to that
\* connection (when its socket is open) and nothing to the others.
C12_SubscribedSetIsSetAlgebra ==
  /\ \A c \in Conns :
       clients[c].registered =>
         /\ clients[c].walletAddresses = wants[c]
         /\ clients[c].subscriptions = wants[c]
  /\ (step.kind = "message"
        /\ step.type \in {"SUBSCRIBE_WALLET", "UNSUBSCRIBE_WALLET"}) =>
       \A c \in Conns :
         out[c] = IF c = step.conn /\ readyState[c] = "OPEN"
                  THEN <<[type |-> step.type, wallet |-> step.wallet,
                          ev |-> 0, message |-> ""]>>
                  ELSE <<>>

\* C12 witness: a connection subscribed to one wallet has just unsubscribed from
\* the other one, which it did not hold, and holds the acknowledgement; another
\* connection is registered.
C12_Witness ==
  /\ step.kind = "message" /\ step.type = "UNSUBSCRIBE_WALLET"
  /\ step.wallet = "W2"
  /\ msgs = 2
  /\ readyState[step.conn] = "OPEN"
  /\ clients[step.conn].walletAddresses = {"W1"}
  /\ Len(out[step.conn]) = 1 /\ out[step.conn][1].type = "UNSUBSCRIBE_WALLET"
  /\ \E d \in Conns : d # step.conn /\ clients[d].registered

\* C13: the step that handles text that is not JSON writes one ERROR frame with
\* the message "Invalid message format" to the sending connection (when its
\* socket is open), the step that handles a frame of unknown kind writes one
\* ERROR frame to it, and in both cases nothing is written to the other
\* connections, every connection stays registered as it was with the same
\* subscribed set, and no socket changes state.
C13_BadFrameAnsweredWithError ==
  [][(msgs' = msgs + 1 /\ step'.type \in {"MALFORMED", "PING"}) =>
       /\ clients' = clients
       /\ readyState' = readyState
       /\ clients'[step'.conn].registered
       /\ \A c \in Conns :
            IF c = step'.conn /\ readyState[c] = "OPEN"
            THEN /\ Len(out'[c]) = 1
                 /\ out'[c][1].type = "ERROR"
                 /\ step'.type = "MALFORMED"
                      => out'[c][1].message = "Invalid message format"
            ELSE out'[c] = <<>>]_vars

\* C13 witness: a subscribed connection has sent text that is not JSON, holds
\* the ERROR frame and is still registered and subscribed.
C13_Witness ==
  /\ step.kind = "message" /\ step.type = "MALFORMED"
  /\ clients[step.conn].registered
  /\ clients[step.conn].walletAddresses = {"W1"}
  /\ out[step.conn] = <<ErrorFrame("Invalid message format")>>

\* The token deltas of the wallet in the transaction behind trades row r that
\* are on the row's mint.
DeltasOf(r) ==
  LET tcs == TokenChanges(chain[r.signature], r.walletAddress)
  IN {tcs[n].change : n \in {k \in 1..Len(tcs) : tcs[k].mint = r.tokenA}}

\* C14: every trades row is on a mint other than wrapped SOL, and for a token
\* delta (mint, change) of its transaction and the wallet's solChange: the row
\* is a buy iff change > 0 and solChange < 0, a sell iff change < 0 and
\* solChange > 0, otherwise a deposit if change > 0 and a withdrawal if
\* change < 0; tradePnl is -|solChange| < 0 for a buy, |solChange| > 0 for a
\* sell and 0 for a transfer.
C14_RowsClassifiedBySigns ==
  \A j \in 1..Len(trades) :
    LET r == trades[j]
        solChange == chain[r.signature].postBalance - chain[r.signature].preBalance
    IN /\ r.tokenA # WSOL
       /\ \E change \in DeltasOf(r) :
            /\ r.type = "buy" <=> (change > 0 /\ solChange < 0)
            /\ r.type = "sell" <=> (change < 0 /\ solChange > 0)
            /\ r.type = "deposit" <=> (change > 0 /\ ~(solChange < 0))
            /\ r.type = "withdrawal" <=> (change < 0 /\ ~(solChange > 0))
            /\ r.type = "buy" => (r.tradePnl = -Abs(solChange) /\ r.tradePnl < 0)
            /\ r.type = "sell" => (r.tradePnl = Abs(solChange) /\ r.tradePnl > 0)
            /\ r.type \in {"deposit", "withdrawal"} => r.tradePnl = 0

\* C14 witness: a deposit row (token and SOL both received) is stored next to
\* the buy row of a transaction that also changed the wallet's wrapped SOL.
C14_Witness ==
  \E j, k \in 1..Len(trades) :
    /\ trades[j].type = "deposit"
    /\ SolChange(chain[trades[j].signature]) > 0
    /\ trades[k].type = "buy"
    /\ \E n \in 1..Len(TokenChanges(chain[trades[k].signature], "W1")) :
         TokenChanges(chain[trades[k].signature], "W1")[n].mint = WSOL

\* C15: every trades row of type buy or sell has tokenB = wrapped SOL and
\* amountB = |solChange| of its transaction; every row of type deposit or
\* withdrawal has tokenB = tokenA, amountB = amountA = |change| of a token delta
\* of its transaction on that mint, and platform "transfer".
C15_RowShape ==
  \A j \in 1..Len(trades) :
    LET r == trades[j]
        solChange == chain[r.signature].postBalance - chain[r.signature].preBalance
    IN /\ r.type \in {"buy", "sell", "deposit", "withdrawal"}
       /\ r.type \in {"buy", "sell"} =>
            /\ r.tokenB = "So11111111111111111111111111111111111111112"
            /\ r.amountB = Abs(solChange)
       /\ r.type \in {"deposit", "withdrawal"} =>
            /\ r.tokenB = r.tokenA
            /\ r.amountB = r.amountA
            /\ \E change \in DeltasOf(r) : r.amountA = Abs(change)
            /\ r.platform = "transfer"

\* C15 witness: a withdrawal row and a sell row are both stored.
C15_Witness ==
  \E j, k \in 1..Len(trades) :
    /\ trades[j].type = "withdrawal" /\ trades[j].amountA = 60000000
    /\ trades[k].type = "sell" /\ trades[k].amountB = 2000000

\* C16: a step that checks the date of a transaction whose block time is before
\* today's first instant or after today's last instant returns, marks the
\* signature as processed and changes no trades row, no DailyPnL row or cache
\* entry and emits no event; a step that checks a transaction whose block time
\* is within the day, its first and last instant included, and that has no
\* trades row goes on to fetch the parsed transaction; and at every moment the
\* trades rows and the trade and pnl events are of transactions from day 1 (the
\* day the clock starts) up to today.
C16_OnlyTodayProcessed ==
  /\ [][\A i \in Slots :
          (cyc[i].pc = "dbcheck" /\ cyc'[i] # cyc[i] /\ restarts' = restarts) =>
            LET t == chain[cyc[i].sig].blockTime
            IN /\ (t < today * DayTicks \/ t > today * DayTicks + DayTicks - 1) =>
                    /\ cyc'[i].pc = "next"
                    /\ cyc[i].sig \in processedTransactions'
                    /\ trades' = trades
                    /\ pnlRecords' = pnlRecords
                    /\ dailyPnLCache' = dailyPnLCache
                    /\ emitted' = emitted
               /\ (t >= today * DayTicks /\ t <= today * DayTicks + DayTicks - 1
                     /\ ExistingTrade(trades, cyc[i].sig) = {}) =>
                    cyc'[i].pc = "parsed"]_vars
  /\ [](/\ \A j \in 1..Len(trades) :
             /\ trades[j].timestamp >= DayTicks
             /\ trades[j].timestamp <= today * DayTicks + DayTicks - 1
        /\ \A n \in 1..Len(emitted) :
             emitted[n].kind \in {"trade", "pnl"} =>
               /\ chain[emitted[n].sig].blockTime >= DayTicks
               /\ chain[emitted[n].sig].blockTime <= today * DayTicks + DayTicks - 1)

\* C16 witness: the buy at the first instant of day 1 is stored, the one at the
\* last instant of the day before has been returned for without a row.
C16_Witness ==
  \E s, s2 \in Sigs :
    /\ chain[s].blockTime = DayStart(1)
    /\ ExistingTrade(trades, s) # {}
    /\ chain[s2].blockTime = DayStart(1) - 1
    /\ s2 \in returned
    /\ ExistingTrade(trades, s2) = {}

\* C17 (as claimed): once processTransaction has returned, on the day of the
\* transaction, for a successful transaction in which the wallet's SOL change
\* is 0 and its balance of token M1 goes 0 -> 100, the trades table holds one
\* row for it: a deposit with tokenA = tokenB = M1, amountA = 100, tradePnl 0
\* and platform "transfer".
C17_TransferInPersisted ==
  \A s \in Sigs :
    (/\ s \in returned
     /\ IsToday(chain[s].blockTime, today)
     /\ ~chain[s].err
     /\ SolChange(chain[s]) = 0
     /\ chain[s].preTokenBalances = <<>>
     /\ chain[s].postTokenBalances = <<Tok(3, "M1", "W1", 100000000)>>) =>
      /\ Cardinality(ExistingTrade(trades, s)) = 1
      /\ \A j \in ExistingTrade(trades, s) :
           /\ trades[j].type = "deposit"
           /\ trades[j].tokenA = "M1" /\ trades[j].tokenB = "M1"
           /\ trades[j].amountA = 100000000
           /\ trades[j].tradePnl = 0
           /\ trades[j].platform = "transfer"

\* The rows of pnl_records a step inserts.
InsertedRows == (Len(pnlRecords) + 1)..Len(pnlRecords')

\* What the lookup of wallet w's last row yields for the seed: the endBalance
\* of a row of w with the latest date, or currentBalance if w has no row.
Found(w, currentBalance) ==
  LET mine == {j \in 1..Len(pnlRecords) : pnlRecords[j].walletAddress = w}
      last == {j \in mine : \A j2 \in mine : pnlRecords[j2].date <= pnlRecords[j].date}
  IN IF mine = {} THEN {currentBalance} ELSE {pnlRecords[j].endBalance : j \in last}

\* The steps of initializeDailyPnL(w, currentBalance) when there is no row for
\* today.  At startup the call runs within one step; called from updateDailyPnL
\* (currentBalance is the post balance of the transaction in processing) the
\* lookups are one step and the insert a later one.  endIsStart says which
\* endBalance the inserted row is to have: its startBalance, or currentBalance.
EnsureRowSteps(endIsStart) ==
  /\ InsertedRows # {} =>
       \/ ~running /\ running'
       \/ \E i \in Slots : cyc[i].pc = "init_ins" /\ cyc'[i] # cyc[i]
  /\ \A k \in InsertedRows :
       /\ pnlRecords'[k].realizedPnl = 0
       /\ pnlRecords'[k].totalTrades = 0
       /\ endIsStart => pnlRecords'[k].endBalance = pnlRecords'[k].startBalance
  /\ (~running /\ running') =>
       \A k \in InsertedRows :
         LET w == pnlRecords'[k].walletAddress
         IN /\ pnlRecords'[k].startBalance \in Found(w, ChainBalance(w))
            /\ ~endIsStart => pnlRecords'[k].endBalance = ChainBalance(w)
  /\ \A i \in Slots :
       /\ (cyc[i].pc = "init_sel" /\ cyc'[i].pc = "init_ins") =>
            cyc'[i].loc.start \in Found(cyc[i].w, chain[cyc[i].sig].postBalance)
       /\ (cyc[i].pc = "init_ins" /\ cyc'[i] # cyc[i]) =>
            /\ InsertedRows # {}
            /\ \A k \in InsertedRows :
                 /\ pnlRecords'[k].walletAddress = cyc[i].w
                 /\ pnlRecords'[k].startBalance = cyc[i].loc.start
                 /\ ~endIsStart =>
                      pnlRecords'[k].endBalance = chain[cyc[i].sig].postBalance

\* C18 (as claimed): a row inserted into pnl_records has realizedPnl 0 and
\* totalTrades 0, its startBalance is the endBalance of the wallet's most recent
\* row if the lookup found one and the passed currentBalance otherwise, and its
\* endBalance equals its startBalance.
C18_EndBalanceIsStartBalance == [][EnsureRowSteps(TRUE)]_vars

\* C18 (amended): a row inserted into pnl_records has realizedPnl 0 and
\* totalTrades 0, its startBalance is the endBalance of the wallet's most recent
\* row if the lookup found one and the passed currentBalance otherwise, and its
\* endBalance is the passed currentBalance.
C18_EndBalanceIsCurrentBalance == [][EnsureRowSteps(FALSE)]_vars

\* C18 witness: after a restart on day 2 the wallet's second row was seeded
\* from the endBalance of its row of day 1, and its endBalance is another
\* amount.
C18_Witness ==
  /\ restarts = 1 /\ running
  /\ Len(pnlRecords) = 2
  /\ pnlRecords[1].date = DayStart(1) /\ pnlRecords[2].date = DayStart(2)
  /\ pnlRecords[2].startBalance = pnlRecords[1].endBalance
  /\ pnlRecords[2].endBalance # pnlRecords[2].startBalance
  /\ pnlRecords[2].totalTrades = 0

\* C19: while a callback works through a wallet's batch, the signatures still
\* to be handed to processTransaction are in non-decreasing block time order
\* (a missing block time counting as 0), and the signature being processed is
\* not later than any of them.
C19_BatchInBlockTimeOrder ==
  \A i \in Slots :
    /\ \A n, m \in 1..Len(cyc[i].sigs) :
         n < m => chain[cyc[i].sigs[n]].blockTime <= chain[cyc[i].sigs[m]].blockTime
    /\ cyc[i].sig # NoSig =>
         \A n \in 1..Len(cyc[i].sigs) :
           chain[cyc[i].sig].blockTime <= chain[cyc[i].sigs[n]].blockTime

\* C19 witness: the chain returned signature 2 first; signature 1, which has no
\* block time, is being processed and signature 2 waits.
C19_Witness ==
  /\ cyc[1].pc = "dbcheck"
  /\ cyc[1].sig = 1
  /\ cyc[1].sigs = <<2>>
  /\ ChainSignatures("W1") = <<2, 1>>
  /\ chain[1].blockTime = 0
  /\ chain[2].blockTime > 0

\* C20 (as claimed): at most one polling callback is in progress at any time.
C20_OneCycleAtATime ==
  Cardinality({i \in Slots : cyc[i].pc # "idle"}) <= 1

\* Callback i is inside a processTransaction call, past the look-up in
\* processedTransactions.
Processing(i) ==
  cyc[i].pc \in {"dbcheck", "parsed", "saved", "pnl_upd", "init_sel", "init_ins"}

\* Callback i takes the step in which its processTransaction call catches an
\* exception.
Catches(i) == Processing(i) /\ failures' = failures + 1 /\ cyc'[i] # cyc[i]

\* C21 (as claimed): a signature whose processTransaction call fails with an
\* RPC error or a Store write failure is not in processedTransactions when the
\* call has returned.
C21_FailedNotSeen ==
  [][\A i \in Slots : Catches(i) => cyc[i].sig \notin processedTransactions']_vars

\* C21 (amended): a signature whose processTransaction call has failed with an
\* RPC error or a Store write failure is in processedTransactions, and no later
\* call of the running process gets past the look-up in processedTransactions
\* for it: it is not retried.
C21_FailedNotRetried ==
  \A s \in failed :
    /\ s \in processedTransactions
    /\ \A i \in Slots : Processing(i) => cyc[i].sig # s

\* C21 witness: in the second cycle the callback has just skipped a buy whose
\* processing failed in the first cycle and that has no trades row.
C21_Witness ==
  /\ polls = 2
  /\ cyc[1].pc = "next"
  /\ cyc[1].sig \in failed
  /\ chain[cyc[1].sig].postBalance = 9000000 /\ ~chain[cyc[1].sig].err
  /\ ExistingTrade(trades, cyc[1].sig) = {}

\* C22: the step in which a processTransaction call catches an exception
\* leaves the signature in processedTransactions and the callback in the loop
\* of processTransactions, for the same wallet and with the rest of the batch
\* untouched.
C22_ExceptionCachedBatchGoesOn ==
  [][\A i \in Slots :
       Catches(i) =>
         /\ cyc[i].sig \in processedTransactions'
         /\ cyc'[i].pc = "next"
         /\ cyc'[i].w = cyc[i].w
         /\ cyc'[i].sigs = cyc[i].sigs
         /\ cyc'[i].visited = cyc[i].visited]_vars

\* C22 witness: the first signature of the batch failed and is cached; the
\* second one is being processed in the same cycle.
C22_Witness ==
  /\ polls = 1
  /\ failed # {}
  /\ failed \subseteq processedTransactions
  /\ cyc[1].pc = "parsed"
  /\ cyc[1].sig \notin failed

\* C23: a step in which an RPC or Store call fails leaves the process running
\* and every callback that was in progress still in progress, and a callback
\* ends only when every wallet of the active map has had its turn in it.
C23_FailureStaysInItsWallet ==
  [][/\ failures' = failures + 1 =>
          /\ running'
          /\ \A i \in Slots : cyc[i].pc # "idle" => cyc'[i].pc # "idle"
     /\ \A i \in Slots :
          (cyc[i].pc # "idle" /\ cyc'[i].pc = "idle") =>
            \A w \in Wallets : activeWallets[w].present => w \in cyc[i].visited]_vars

\* C23 witness: both wallets are active; in the first cycle a call failed while
\* W1 was polled or processed, and W2 has been polled after it.
C23_Witness ==
  /\ polls = 1
  /\ failures = 1
  /\ activeWallets["W1"].present /\ activeWallets["W2"].present
  /\ cyc[1].pc = "fetch"
  /\ cyc[1].visited = {"W1", "W2"}

\* initialize() completes in this step.
Started == ~running /\ running'

\* C24 (as claimed): when initialize() has completed, today's pnl_records row
\* of every active wallet has realizedPnl 0 and totalTrades 0.
C24_CountersResetOnStartup ==
  [][Started =>
       \A w \in Wallets :
         activeWallets'[w].present =>
           \A k \in PnlRowsFor(pnlRecords', w, DayStart(today)) :
             pnlRecords'[k].realizedPnl = 0 /\ pnlRecords'[k].totalTrades = 0]_vars

\* C25 (as claimed): when initialize() has completed, and with it
\* initializeDailyPnL for every active wallet, dailyPnLCache holds an entry for
\* each active wallet whose date, startBalance, realizedPnl and totalTrades are
\* those of the wallet's pnl_records row of today.
C25_CacheHoldsTodaysRow ==
  [][Started =>
       \A w \in Wallets :
         activeWallets'[w].present =>
           /\ dailyPnLCache'[w].present
           /\ \A k \in PnlRowsFor(pnlRecords', w, DayStart(today)) :
                /\ dailyPnLCache'[w].date = pnlRecords'[k].date
                /\ dailyPnLCache'[w].startBalance = pnlRecords'[k].startBalance
                /\ dailyPnLCache'[w].realizedPnl = pnlRecords'[k].realizedPnl
                /\ dailyPnLCache'[w].totalTrades = pnlRecords'[k].totalTrades]_vars

\* The pnl events emitted so far for signature s.
PnlEventsOf(s) ==
  {n \in 1..Len(emitted) : emitted[n].kind = "pnl" /\ emitted[n].sig = s}

\* C26 (as claimed): once processTransaction has returned for a signature,
\* every trade event emitted for it is followed by a pnl event for it, and
\* there are as many pnl events as trade events: each updateDailyPnL call made
\* for a persisted buy or sell has applied the trade and emitted one pnl event.
C26_EveryTradeAppliedAndAnnounced ==
  \A s \in returned :
    /\ Cardinality(PnlEventsOf(s)) = Cardinality(TradeEventsOf(s))
    /\ \A n \in TradeEventsOf(s) : \E m \in PnlEventsOf(s) : m > n

\* C27 (as claimed): when updateDailyPnL writes to pnl_records for a
\* transaction of today, the row it changes is the row of today; a row of an
\* earlier day is not modified.
C27_WritesKeyedByToday ==
  [][\A i \in Slots :
       (cyc[i].pc = "pnl_upd" /\ cyc'[i] # cyc[i]
          /\ IsToday(chain[cyc[i].sig].blockTime, today)) =>
         \A k \in 1..Len(pnlRecords) :
           pnlRecords'[k] # pnlRecords[k] => pnlRecords[k].date = DayStart(today)]_vars

\* C28 (as claimed): in the second cycle of a process run, for a wallet that
\* was live in both and whose newest signature on the chain is the one the
\* first cycle recorded, the callback skips the wallet: it never reaches
\* processTransactions.
C28_UnchangedWalletSkipped ==
  (restarts = 0 /\ polls = 2) =>
    \A i \in Slots : cyc[i].pc \in {"idle", "fetch"}

C30_ReturnedIsSeen ==
  restarts = 0 => returned \subseteq processedTransactions

\* ------------------------------------------------ claims C31 to C40
\* A transaction processTransaction and classifyAndSaveTransaction skip: it
\* failed, it does not list the wallet, or the wallet's SOL moved by less than
\* the threshold.
SkippedTx(tx) == tx.err \/ ~tx.inKeys \/ Abs(SolChange(tx)) < SolEps

\* C31: a transaction that failed, that does not list the wallet in its account
\* keys, or that moved less than 0.000001 SOL has no trades row and no trade or
\* pnl event, and no step of the processTransaction call made for it changes
\* trades, the events, pnl_records or the daily PnL cache.
C31_SkippedHasNoEffect ==
  /\ [](\A s \in Sigs :
          SkippedTx(chain[s]) =>
            /\ \A j \in 1..Len(trades) : trades[j].signature # s
            /\ TradeEventsOf(s) = {}
            /\ PnlEventsOf(s) = {})
  /\ [][\A i \in Slots :
          (/\ Processing(i)
           /\ SkippedTx(chain[cyc[i].sig])
           /\ cyc'[i] # cyc[i])
          => UNCHANGED <<trades, emitted, pnlRecords, dailyPnLCache>>]_vars

\* C31 witness: processTransaction has returned for a failed transaction and
\* for a fee-only transaction without token balances, and trades is empty.
C31_Witness ==
  /\ returned = Sigs
  /\ \E s \in Sigs : chain[s].err /\ chain[s].inKeys /\ Abs(SolChange(chain[s])) >= SolEps
  /\ \E s \in Sigs : ~chain[s].err /\ chain[s].inKeys /\ Abs(SolChange(chain[s])) < SolEps
                      /\ chain[s].postTokenBalances = <<>>
  /\ trades = <<>>

\* The token deltas of wallet w in tx as the reference states them: post minus
\* pre at the same account index for every post entry the wallet owns, the
\* whole pre amount for every owned pre entry without a post entry at its
\* account index, and nothing at or below the threshold.
RefDeltas(tx, w) ==
  LET pres == {tx.preTokenBalances[j] : j \in 1..Len(tx.preTokenBalances)}
      posts == {tx.postTokenBalances[j] : j \in 1..Len(tx.postTokenBalances)}
      PreAmount(ix) == IF \E p \in pres : p.accountIndex = ix
                       THEN (CHOOSE p \in pres : p.accountIndex = ix).amount
                       ELSE 0
      changed == {[mint |-> q.mint, change |-> q.amount - PreAmount(q.accountIndex)] :
                    q \in {q \in posts : q.owner = w}}
      closed == {[mint |-> p.mint, change |-> -p.amount] :
                   p \in {p \in pres : /\ p.owner = w
                                        /\ p.amount > 0
                                        /\ \A q \in posts : q.accountIndex # p.accountIndex}}
  IN {d \in changed \cup closed : Abs(d.change) > TokenEps}

\* C32 (as claimed): the token deltas processTransaction computes for a
\* transaction it does not skip are the reference deltas; a token account the
\* wallet holds before and after with the same balance yields no delta.
C32_TokenDeltasAreReference ==
  [][\A i \in Slots :
       (/\ cyc[i].pc = "parsed"
        /\ cyc'[i] # cyc[i]
        /\ chain[cyc[i].sig].inKeys
        /\ Abs(SolChange(chain[cyc[i].sig])) >= SolEps)
       => LET tcs == TokenChanges(chain[cyc[i].sig], cyc[i].w)
          IN {[mint |-> tcs[k].mint, change |-> tcs[k].change] : k \in 1..Len(tcs)}
               = RefDeltas(chain[cyc[i].sig], cyc[i].w)]_vars

\* C33 (as claimed): every step that writes a trades row, whatever its type,
\* emits exactly one trade event for the wallet and signature of that row.
C33_EveryRowAnnounced ==
  [][trades' # trades =>
       \E i \in Slots :
         /\ cyc[i].pc = "saved"
         /\ emitted' = Append(emitted, TradeEvent(cyc[i].w, cyc[i].sig))]_vars

\* C34 (as claimed): while no updateDailyPnL call is in progress for a wallet,
\* the cached realizedPnl, totalTrades and currentBalance are those of the
\* pnl_records row of the cached date, also after a call whose Store write
\* failed.
C34_CacheIsRow ==
  \A w \in Wallets :
    (/\ dailyPnLCache[w].present
     /\ \A i \in Slots :
          cyc[i].w = w => cyc[i].pc \notin {"pnl_upd", "init_sel", "init_ins"})
    => \A k \in PnlRowsFor(pnlRecords, w, dailyPnLCache[w].date) :
         /\ pnlRecords[k].realizedPnl = dailyPnLCache[w].realizedPnl
         /\ pnlRecords[k].totalTrades = dailyPnLCache[w].totalTrades
         /\ pnlRecords[k].endBalance = dailyPnLCache[w].currentBalance

\* The ERROR frames the last step wrote to connection c.
ErrorFramesOf(c) == {n \in 1..Len(out[c]) : out[c][n].type = "ERROR"}

\* C35 (as claimed): an ERROR frame is written to a connection only by the
\* step that handles a frame this connection sent.
C35_ErrorOnlyForOwnFrame ==
  \A c \in Conns :
    ErrorFramesOf(c) # {} => step.kind = "message" /\ step.conn = c

\* C35 (amended): an ERROR frame is written to a connection only by the step
\* that handles a frame it sent, or by the end of its own connect-time
\* USERS_LIST assembly when that failed; a failed USERS_UPDATE assembly writes
\* nothing to any connection.
C35_ErrorOnlyToOriginator ==
  /\ \A c \in Conns :
       ErrorFramesOf(c) # {} =>
         \/ step.kind = "message" /\ step.conn = c
         \/ step.kind = "list" /\ step.conn = c /\ step.type = "failed"
  /\ (step.kind = "update" /\ step.type = "failed") => out = Silent

\* C35 witness: connection 1 has sent no frame, another connection is
\* registered, and the failed assembly of connection 1's USERS_LIST has written
\* an ERROR frame to connection 1.
C35_Witness ==
  /\ msgs = 0
  /\ step.kind = "list" /\ step.conn = 1 /\ step.type = "failed"
  /\ ErrorFramesOf(1) # {}
  /\ clients[2].registered

\* C36: once the close event of a connection has been handled, the client map
\* does not hold it, it has no subscriptions, and no step writes a frame to it,
\* the end of its own USERS_LIST assembly included; and a connection that is
\* accepted starts with an empty subscribed set.
C36_ClosedIsGone ==
  /\ [](\A c \in Conns :
          readyState[c] = "CLOSED" =>
            /\ ~clients[c].registered
            /\ clients[c].walletAddresses = {}
            /\ out[c] = <<>>)
  /\ [][\A c \in Conns :
          (readyState[c] = "NONE" /\ readyState'[c] = "OPEN") =>
            /\ clients'[c].registered
            /\ clients'[c].walletAddresses = {}
            /\ clients'[c].subscriptions = {}]_vars

\* C36 witness: connection 1 was closed while its USERS_LIST was being
\* assembled, connection 2 was accepted, and the assembly for connection 1 has
\* just ended successfully without a frame written to it.
C36_Witness ==
  /\ readyState[1] = "CLOSED"
  /\ clients[2].registered /\ readyState[2] = "OPEN"
  /\ step.kind = "list" /\ step.conn = 1 /\ step.type = "sent"
  /\ out[1] = <<>>

\* C37 (as claimed): the dailyPnl of every snapshot assembled for a USERS_LIST or
\* a USERS_UPDATE is the wallet's pnl_records row of today, or null when the
\* wallet has no row of today, and its balance is that row's endBalance, or 0.
C37_DailyPnlIsTodaysRow ==
  [][\A d \in userData' \ userData :
       LET rows == PnlRowsFor(pnlRecords, d.wallet, DayStart(today))
       IN IF rows = {} THEN d.dailyPnl = NoPnl /\ d.balance = 0
          ELSE \E k \in rows : /\ d.dailyPnl = pnlRecords[k]
                                /\ d.balance = pnlRecords[k].endBalance]_vars

\* C39 (as claimed): of two USERS_UPDATE snapshots of one wallet, the one sent
\* later was not read from an older state of the Store than the one sent
\* earlier: it was read no earlier, or it carries the same row.
C39_UpdatesNeverGoBack ==
  \A i \in 1..Len(delivered) : \A j \in 1..Len(delivered) :
    (/\ i < j
     /\ delivered[i].ev # 0 /\ delivered[j].ev # 0
     /\ delivered[i].wallet = delivered[j].wallet)
    => \/ delivered[i].at <= delivered[j].at
       \/ delivered[i].dailyPnl = delivered[j].dailyPnl

\* C38 (as claimed): within a process run, a signature whose transaction has
\* one token delta leads to at most one trade event and at most one
\* updateDailyPnL application (one pnl event), however the polling callbacks
\* interleave.
C38_SignatureAppliedOnce ==
  restarts = 0 =>
    \A s \in Sigs :
      Len(TokenChanges(chain[s], "W1")) = 1 =>
        /\ Cardinality(TradeEventsOf(s)) <= 1
        /\ Cardinality(PnlEventsOf(s)) <= 1

\* C40 (as claimed): while no getTokenMetadata or updateTokenPrice call is in
\* progress, every mint in tokenCache has the lastPrice of its tokens row.
C40_CacheHasTablePrice ==
  (\A c \in TokenSlots : tokenCalls[c].pc = "idle") =>
    \A mint \in Mints :
      tokenCache[mint].present =>
        /\ tokensTable[mint].present
        /\ tokenCache[mint].lastPrice = tokensTable[mint].lastPrice
====
